---------------------------- MODULE Spec2Model ----------------------------
(***************************************************************************)
(* A model of the GitCode forge adapter of woodpecker                      *)
(* (server/forge/gitcode): the REST client (client.go), the forge          *)
(* operations (gitcode.go) and the webhook converters (helper.go,          *)
(* convert.go, types.go).                                                  *)
(*                                                                         *)
(* Go strings are sequences of one-character strings, so that prefix,      *)
(* substring and split operations are computed and not assumed.  The       *)
(* network, the OAuth server and the JSON decoder are the environment:     *)
(* every answer they can give is an input of the action that consumes it.  *)
(***************************************************************************)
EXTENDS Integers, Sequences, FiniteSets, TLC

VARIABLES
    op,     \* name of the operation that ran last ("none" initially)
    args,   \* its arguments (a record)
    ret,    \* what it returned (a record)
    reqs,   \* the outbound requests it made, in order
    cfg,    \* the configuration the server was started with
    forge,  \* the forge New built from it
    server  \* the webhooks the service holds for the repository

vars == <<op, args, ret, reqs, cfg, forge, server>>

----------------------------------------------------------------------------
(* Bounds of the model.                                                    *)

MaxTokenLen == 1      \* longest token built from TokenChars
MaxNameLen == 1       \* longest owner / repository / path name
MaxBatch == 2         \* most repositories the server puts on one page
MaxPages == 3         \* most pages one Paginate loop is followed for
MaxPieces == 3        \* most pieces an avatar URL is put together from
MaxEntries == 2       \* most entries of a repository tree
MaxCalls == 3         \* most Activate and Deactivate calls in a row

----------------------------------------------------------------------------
(* Strings.                                                                *)

Ctl == "\t"           \* an ASCII control character

RECURSIVE Concat(_)
Concat(ss) == IF ss = <<>> THEN <<>> ELSE Head(ss) \o Concat(Tail(ss))

Strs(chars, n) == UNION {[1..k -> chars] : k \in 0..n}

Repeat(c, n) == [i \in 1..n |-> c]

HasPrefix(s, p) == Len(s) >= Len(p) /\ SubSeq(s, 1, Len(p)) = p

HasSuffix(s, p) ==
    Len(s) >= Len(p) /\ SubSeq(s, Len(s) - Len(p) + 1, Len(s)) = p

\* strings.Index: the first position (from 0) of sub in s, or -1.
Index(s, sub) ==
    LET hits == {i \in 1..(Len(s) - Len(sub) + 1) :
                    SubSeq(s, i, i + Len(sub) - 1) = sub}
    IN  IF hits = {} THEN -1
        ELSE (CHOOSE i \in hits : \A j \in hits : i <= j) - 1

Contains(s, sub) == Index(s, sub) # -1

TrimPrefix(s, p) ==
    IF HasPrefix(s, p) THEN SubSeq(s, Len(p) + 1, Len(s)) ELSE s

\* strings.Split(s, sep) for a one-character separator.
RECURSIVE Split(_, _)
Split(s, sep) ==
    LET i == Index(s, <<sep>>)
    IN  IF i = -1 THEN <<s>>
        ELSE <<SubSeq(s, 1, i)>> \o Split(SubSeq(s, i + 2, Len(s)), sep)

Digit(d) == CASE d = 0 -> "0" [] d = 1 -> "1" [] d = 2 -> "2" [] d = 3 -> "3"
              [] d = 4 -> "4" [] d = 5 -> "5" [] d = 6 -> "6" [] d = 7 -> "7"
              [] d = 8 -> "8" [] d = 9 -> "9"

\* strconv.FormatInt(n, 10) / fmt.Sprintf("%d", n).
RECURSIVE Itoa(_)
Itoa(n) ==
    IF n < 0 THEN <<"-">> \o Itoa(0 - n)
    ELSE IF n < 10 THEN <<Digit(n)>>
    ELSE Itoa(n \div 10) \o <<Digit(n % 10)>>

\* url.QueryEscape: letters, digits, '-', '_', '.', '~' are kept, a space
\* becomes '+', every other byte becomes %XX.
EscapeChar(c) ==
    CASE c = "/" -> <<"%", "2", "F">>
      [] c = "?" -> <<"%", "3", "F">>
      [] c = "&" -> <<"%", "2", "6">>
      [] c = "=" -> <<"%", "3", "D">>
      [] c = "#" -> <<"%", "2", "3">>
      [] c = ":" -> <<"%", "3", "A">>
      [] c = "%" -> <<"%", "2", "5">>
      [] c = Ctl -> <<"%", "0", "9">>
      [] c = " " -> <<"+">>
      [] OTHER -> <<c>>

RECURSIVE QueryEscape(_)
QueryEscape(s) ==
    IF s = <<>> THEN <<>> ELSE EscapeChar(Head(s)) \o QueryEscape(Tail(s))

Letters ==
    {"a", "b", "c", "d", "e", "f", "g", "h", "i", "j", "k", "l", "m", "n",
     "o", "p", "q", "r", "s", "t", "u", "v", "w", "x", "y", "z"}
DigitChars == {"0", "1", "2", "3", "4", "5", "6", "7", "8", "9"}

Min(S) == CHOOSE i \in S : \A j \in S : i <= j
Max(S) == CHOOSE i \in S : \A j \in S : i >= j

\* F applied to the value of v, with v computed once.
Apply(F(_), v) == CHOOSE r \in {F(x) : x \in {v}} : TRUE

\* url.Parse, first step: the fragment is cut off at the first '#', and a
\* control character in what is left fails the parse.
parseFragment(raw) ==
    LET h == Index(raw, <<"#">>)
    IN  [u |-> IF h = -1 THEN raw ELSE SubSeq(raw, 1, h),
         fragment |-> IF h = -1 THEN <<>> ELSE SubSeq(raw, h + 2, Len(raw))]

\* url.getScheme: the scheme is the run of letters (digits, '+', '-', '.'
\* after the first) before a ':'; a leading ':' is "missing protocol scheme".
getScheme(p) ==
    LET u == p.u
        stops == {i \in 1..Len(u) :
                    /\ u[i] \notin Letters
                    /\ ~(i > 1 /\ u[i] \in DigitChars \cup {"+", "-", "."})}
        k == IF stops = {} THEN 0 ELSE Min(stops)
    IN  IF k >= 1 /\ u[k] = ":"
        THEN [fragment |-> p.fragment, ctl |-> \E i \in 1..Len(u) : u[i] = Ctl,
              missing |-> k = 1, scheme |-> SubSeq(u, 1, k - 1),
              rest |-> SubSeq(u, k + 1, Len(u))]
        ELSE [fragment |-> p.fragment, ctl |-> \E i \in 1..Len(u) : u[i] = Ctl,
              missing |-> FALSE, scheme |-> <<>>, rest |-> u]

\* url.parse, the query: a lone trailing '?' forces an empty query, otherwise
\* the query is what follows the first '?'.
parseQuery(p) ==
    LET q == Index(p.rest, <<"?">>)
    IN  [fragment |-> p.fragment, ctl |-> p.ctl, missing |-> p.missing,
         scheme |-> p.scheme,
         force |-> q # -1 /\ q = Len(p.rest) - 1,
         rest |-> IF q = -1 THEN p.rest ELSE SubSeq(p.rest, 1, q),
         query |-> IF q = -1 THEN <<>>
                   ELSE SubSeq(p.rest, q + 2, Len(p.rest))]

\* url.parse, the authority and the path; url.parseHost checks the port and
\* the characters of the host.
parseAuthority(p) ==
    LET rest == p.rest
        bad == [ok |-> FALSE]
        hasAuth == HasPrefix(rest, <<"/", "/">>)
                   /\ (p.scheme # <<>> \/ ~HasPrefix(rest, <<"/", "/", "/">>))
        s == Index(SubSeq(rest, 3, Len(rest)), <<"/">>)
        host == IF ~hasAuth THEN <<>>
                ELSE IF s = -1 THEN SubSeq(rest, 3, Len(rest))
                ELSE SubSeq(rest, 3, s + 2)
        path == IF ~hasAuth THEN rest
                ELSE IF s = -1 THEN <<>>
                ELSE SubSeq(rest, s + 3, Len(rest))
        badHost(h) ==
            LET colons == {i \in 1..Len(h) : h[i] = ":"}
            IN  \/ \E i \in 1..Len(h) : h[i] = " "
                \/ /\ colons # {}
                   /\ \E i \in 1..Len(h) :
                        /\ \A j \in colons : j < i
                        /\ h[i] \notin DigitChars
    IN  IF p.ctl \/ p.missing THEN bad
        ELSE IF ~HasPrefix(rest, <<"/">>) /\ p.scheme # <<>>
        THEN [ok |-> TRUE, scheme |-> p.scheme, opaque |-> rest,
              host |-> <<>>, path |-> <<>>, query |-> p.query,
              force |-> p.force, fragment |-> p.fragment]
        ELSE IF /\ ~HasPrefix(rest, <<"/">>)
                /\ \E i \in 1..Len(rest) :
                     /\ rest[i] = ":"
                     /\ \A j \in 1..(i - 1) : rest[j] # "/"
        THEN bad
        ELSE IF Apply(badHost, host) THEN bad
        ELSE [ok |-> TRUE, scheme |-> p.scheme, opaque |-> <<>>,
              host |-> host, path |-> path, query |-> p.query,
              force |-> p.force, fragment |-> p.fragment]

\* url.Parse, on strings without '%', '@', '[' and upper-case letters. The
\* result says whether parsing succeeded and gives the parts of the URL.
\* Parsing fails on a control character before the fragment, on a leading
\* ':' (missing protocol scheme), on a colon in the first segment of a
\* relative path, and on a host with a space or a port that is not a number.
ParseURL(raw) ==
    Apply(parseAuthority,
          Apply(parseQuery, Apply(getScheme, Apply(parseFragment, raw))))

URLParses(u) == ParseURL(u).ok

\* The escaping url.URL.String applies to a path: of the characters of this
\* model only '?', '#', '%', the space and control characters are escaped.
PathEscapeChar(c) ==
    CASE c = "?" -> <<"%", "3", "F">>
      [] c = "#" -> <<"%", "2", "3">>
      [] c = "%" -> <<"%", "2", "5">>
      [] c = " " -> <<"%", "2", "0">>
      [] c = Ctl -> <<"%", "0", "9">>
      [] OTHER -> <<c>>

RECURSIVE EscapedPath(_)
EscapedPath(s) ==
    IF s = <<>> THEN <<>> ELSE PathEscapeChar(Head(s)) \o EscapedPath(Tail(s))

\* url.URL.String.
URLString(u) ==
    LET schemePart == IF u.scheme # <<>> THEN u.scheme \o <<":">> ELSE <<>>
        p == EscapedPath(u.path)
        slashes == IF (u.scheme # <<>> \/ u.host # <<>>)
                      /\ (u.host # <<>> \/ u.path # <<>>)
                   THEN <<"/", "/">> ELSE <<>>
        lead == IF p # <<>> /\ Head(p) # "/" /\ u.host # <<>>
                THEN <<"/">>
                ELSE IF schemePart = <<>> /\ slashes = <<>>
                        /\ Contains(Head(Split(p, "/")), <<":">>)
                THEN <<".", "/">>
                ELSE <<>>
        body == IF u.opaque # <<>> THEN u.opaque
                ELSE Concat(<<slashes, u.host, lead, p>>)
        queryPart == IF u.force \/ u.query # <<>>
                     THEN <<"?">> \o u.query ELSE <<>>
        fragPart == IF u.fragment # <<>>
                    THEN <<"#">> \o EscapedPath(u.fragment) ELSE <<>>
    IN  Concat(<<schemePart, body, queryPart, fragPart>>)

\* path.Clean.
RECURSIVE CleanParts(_, _, _)
CleanParts(parts, acc, rooted) ==
    IF parts = <<>> THEN acc
    ELSE LET e == Head(parts)
         IN  IF e = <<>> \/ e = <<".">>
             THEN CleanParts(Tail(parts), acc, rooted)
             ELSE IF e = <<".", ".">>
             THEN IF acc # <<>> /\ acc[Len(acc)] # <<".", ".">>
                  THEN CleanParts(Tail(parts), SubSeq(acc, 1, Len(acc) - 1), rooted)
                  ELSE IF rooted
                  THEN CleanParts(Tail(parts), acc, rooted)
                  ELSE CleanParts(Tail(parts), Append(acc, e), rooted)
             ELSE CleanParts(Tail(parts), Append(acc, e), rooted)

RECURSIVE JoinWith(_, _)
JoinWith(parts, sep) ==
    IF parts = <<>> THEN <<>>
    ELSE IF Len(parts) = 1 THEN Head(parts)
    ELSE Head(parts) \o <<sep>> \o JoinWith(Tail(parts), sep)

PathClean(p) ==
    IF p = <<>> THEN <<".">>
    ELSE LET rooted == Head(p) = "/"
             kept == CleanParts(Split(p, "/"), <<>>, rooted)
             joined == JoinWith(kept, "/")
         IN  IF rooted THEN <<"/">> \o joined
             ELSE IF joined = <<>> THEN <<".">> ELSE joined

\* path.Join of two elements: empty elements are ignored, the rest joined
\* with '/' and cleaned; "" when both are empty.
PathJoin(a, b) ==
    IF a = <<>> /\ b = <<>> THEN <<>>
    ELSE IF a = <<>> THEN PathClean(b)
    ELSE IF b = <<>> THEN PathClean(a)
    ELSE PathClean(Concat(<<a, <<"/">>, b>>))

\* The query of a parsed URL: what lies after the first '?' and before the
\* first '#', as a sequence of <<key, value>> pairs (url.URL.Query).
RawQuery(u) ==
    LET f == Index(u, <<"#">>)
        nofrag == IF f = -1 THEN u ELSE SubSeq(u, 1, f)
        q == Index(nofrag, <<"?">>)
    IN  IF q = -1 THEN <<>> ELSE SubSeq(nofrag, q + 2, Len(nofrag))

QueryParams(u) ==
    LET parts == Split(RawQuery(u), "&")
        kv(p) == LET e == Index(p, <<"=">>)
                 IN  IF e = -1 THEN <<p, <<>>>>
                     ELSE <<SubSeq(p, 1, e), SubSeq(p, e + 2, Len(p))>>
    IN  [i \in 1..Len(parts) |-> kv(parts[i])]

----------------------------------------------------------------------------
(* Program constants.                                                      *)

defaultURL ==
    <<"h", "t", "t", "p", "s", ":", "/", "/",
      "g", "i", "t", "c", "o", "d", "e", ".", "c", "o", "m">>

defaultAPI ==
    <<"h", "t", "t", "p", "s", ":", "/", "/", "a", "p", "i", ".",
      "g", "i", "t", "c", "o", "d", "e", ".", "c", "o", "m",
      "/", "a", "p", "i", "/", "v", "5">>

defaultPageSize == 50

\* GetUser logs c.token[:tokenLogPrefix].
tokenLogPrefix == 10

accessTokenParam ==
    <<"a", "c", "c", "e", "s", "s", "_", "t", "o", "k", "e", "n">>

----------------------------------------------------------------------------
(* Values shared by the operations.                                        *)

NoErr == [e |-> "nil"]
Nil == [nil |-> TRUE]
NoBody == [nobody |-> TRUE]
NoJSON == [nojson |-> TRUE]

ErrTransport == [e |-> "transport"]
ErrMarshal == [e |-> "marshal request body"]
ErrCreateRequest == [e |-> "create request"]
ErrReadBody == [e |-> "read response body"]
ErrDecode == [e |-> "decode JSON response"]
\* fmt.Errorf("API error %d: %s", status, body)
ErrAPI(status, text) == [e |-> "API error", status |-> status, body |-> text]

\* What the network can answer to one http.Client.Do: no answer (a
\* transport error) or a response with a status and a body.  A body is its
\* text, what a JSON decoder makes of it ([val |-> v], or NoJSON: a decode
\* error), and whether reading it fails.
Statuses == {200, 399, 400, 404, 500}

JSONText == <<"{", "}">>
GarbageTexts == {<<>>, <<"4", "0", "4">>}

Bodies(values) ==
    {[text |-> JSONText, json |-> [val |-> v], readErr |-> FALSE] : v \in values}
    \cup {[text |-> t, json |-> NoJSON, readErr |-> FALSE] : t \in GarbageTexts}
    \cup {[text |-> <<>>, json |-> NoJSON, readErr |-> TRUE]}

Nets(values) ==
    {[kind |-> "transport"]}
    \cup {[kind |-> "http", status |-> s, body |-> b] :
            s \in Statuses, b \in Bodies(values)}


----------------------------------------------------------------------------
(* The REST client (client.go).                                            *)

\* A result is [val |-> v], or Unset: the variable was left at its zero value.
Unset == [unset |-> TRUE]

\* The service before any webhook is registered; calls counts the calls made.
NoHooks == [hooks |-> <<>>, nextID |-> 1, calls |-> 0, allNil |-> TRUE]

\* A token of the length GetUser's log line needs, and one longer.
LongTokens == {Repeat("a", tokenLogPrefix), Repeat("a", tokenLogPrefix + 1)}

TokenChars == {"a", "&", Ctl}
Tokens == Strs(TokenChars, MaxTokenLen) \cup LongTokens

NameChars == {"a", "?"}
Names == Strs(NameChars, MaxNameLen)

\* makeRequest with a retry after a transport failure.
makeRequestRetry(token, method, endpoint, body, net) ==
    LET base == defaultAPI \o endpoint
        url == IF token # <<>>
               THEN IF Contains(base, <<"?">>)
                    THEN Concat(<<base, <<"&">>, accessTokenParam, <<"=">>, token>>)
                    ELSE Concat(<<base, <<"?">>, accessTokenParam, <<"=">>, token>>)
               ELSE base
        req == [method |-> method, url |-> url, hasBody |-> body # NoBody]
    IN  IF body # NoBody /\ ~body.marshals
        THEN [sent |-> <<>>, resp |-> Nil, err |-> ErrMarshal]
        ELSE IF ~URLParses(url)
        THEN [sent |-> <<>>, resp |-> Nil, err |-> ErrCreateRequest]
        ELSE IF net.kind = "transport"
        THEN [sent |-> <<req, req>>, resp |-> Nil, err |-> ErrTransport]
        ELSE [sent |-> <<req>>, resp |-> net, err |-> NoErr]

\* makeRequest: marshal the body, build the URL with the token as the
\* access_token query parameter, create the request, send it once.
makeRequest(token, method, endpoint, body, net) ==
    LET base == defaultAPI \o endpoint
        url == IF token # <<>>
               THEN IF Contains(base, <<"?">>)
                    THEN Concat(<<base, <<"&">>, accessTokenParam, <<"=">>, token>>)
                    ELSE Concat(<<base, <<"?">>, accessTokenParam, <<"=">>, token>>)
               ELSE base
        req == [method |-> method, url |-> url, hasBody |-> body # NoBody]
    IN  IF body # NoBody /\ ~body.marshals
        THEN [sent |-> <<>>, resp |-> Nil, err |-> ErrMarshal]
        ELSE IF ~URLParses(url)
        THEN [sent |-> <<>>, resp |-> Nil, err |-> ErrCreateRequest]
        ELSE IF net.kind = "transport"
        THEN [sent |-> <<req>>, resp |-> Nil, err |-> ErrTransport]
        ELSE [sent |-> <<req>>, resp |-> net, err |-> NoErr]

\* get: one GET; a status of 400 or more is an error; otherwise the body is
\* read and decoded into the result, when the caller passed one.
get(token, endpoint, wantResult, net) ==
    Apply(LAMBDA r :
            IF r.err # NoErr
            THEN [sent |-> r.sent, err |-> r.err, result |-> Unset]
            ELSE IF r.resp.status >= 400
            THEN [sent |-> r.sent,
                  err |-> ErrAPI(r.resp.status, r.resp.body.text),
                  result |-> Unset]
            ELSE IF ~wantResult
            THEN [sent |-> r.sent, err |-> NoErr, result |-> Unset]
            ELSE IF r.resp.body.readErr
            THEN [sent |-> r.sent, err |-> ErrReadBody, result |-> Unset]
            ELSE IF r.resp.body.json = NoJSON
            THEN [sent |-> r.sent, err |-> ErrDecode, result |-> Unset]
            ELSE [sent |-> r.sent, err |-> NoErr, result |-> r.resp.body.json],
          makeRequest(token, <<"G", "E", "T">>, endpoint, NoBody, net))

\* post: one POST with a JSON body.
post(token, endpoint, body, wantResult, net) ==
    Apply(LAMBDA r :
            IF r.err # NoErr
            THEN [sent |-> r.sent, err |-> r.err, result |-> Unset]
            ELSE IF r.resp.status >= 400
            THEN [sent |-> r.sent,
                  err |-> ErrAPI(r.resp.status, r.resp.body.text),
                  result |-> Unset]
            ELSE IF ~wantResult
            THEN [sent |-> r.sent, err |-> NoErr, result |-> Unset]
            ELSE IF r.resp.body.readErr \/ r.resp.body.json = NoJSON
            THEN [sent |-> r.sent, err |-> ErrDecode, result |-> Unset]
            ELSE [sent |-> r.sent, err |-> NoErr, result |-> r.resp.body.json],
          makeRequest(token, <<"P", "O", "S", "T">>, endpoint, body, net))

\* delete: one DELETE; nothing is decoded.
delete(token, endpoint, net) ==
    Apply(LAMBDA r :
            IF r.err # NoErr
            THEN [sent |-> r.sent, err |-> r.err, result |-> Unset]
            ELSE IF r.resp.status >= 400
            THEN [sent |-> r.sent,
                  err |-> ErrAPI(r.resp.status, r.resp.body.text),
                  result |-> Unset]
            ELSE [sent |-> r.sent, err |-> NoErr, result |-> Unset],
          makeRequest(token, <<"D", "E", "L", "E", "T", "E">>, endpoint,
                      NoBody, net))

\* GetFileContent: GET /repos/<owner>/<repo>/raw/<path>[?ref=<escaped ref>];
\* the result is the raw body.
GetFileContent(token, owner, repo, path, ref, net) ==
    LET plain == Concat(<<<<"/", "r", "e", "p", "o", "s", "/">>, owner, <<"/">>,
                          repo, <<"/", "r", "a", "w", "/">>, path>>)
        endpoint == IF ref # <<>>
                    THEN plain \o <<"?", "r", "e", "f", "=">> \o QueryEscape(ref)
                    ELSE plain
    IN  Apply(LAMBDA r :
                IF r.err # NoErr
                THEN [sent |-> r.sent, err |-> r.err, result |-> Unset]
                ELSE IF r.resp.status >= 400
                THEN [sent |-> r.sent,
                      err |-> ErrAPI(r.resp.status, r.resp.body.text),
                      result |-> Unset]
                ELSE [sent |-> r.sent,
                      err |-> IF r.resp.body.readErr THEN ErrReadBody
                              ELSE NoErr,
                      result |-> [val |-> r.resp.body.text]],
              makeRequest(token, <<"G", "E", "T">>, endpoint, NoBody, net))

\* GetBranch: GET /repos/<owner>/<repo>/branches/<branch>.
GetBranch(token, owner, repo, branch, net) ==
    get(token,
        Concat(<<<<"/", "r", "e", "p", "o", "s", "/">>, owner, <<"/">>, repo, <<"/", "b", "r", "a", "n", "c", "h", "e", "s", "/">>, branch>>),
        TRUE, net)

\* GetTree: GET /repos/<owner>/<repo>/git/trees/<sha>[?recursive=1].
GetTree(token, owner, repo, sha, recursive, net) ==
    get(token,
        Concat(<<<<"/", "r", "e", "p", "o", "s", "/">>, owner, <<"/">>, repo, <<"/", "g", "i", "t", "/", "t", "r", "e", "e", "s", "/">>, sha,
                 IF recursive THEN <<"?", "r", "e", "c", "u", "r", "s", "i", "v", "e", "=", "1">> ELSE <<>>>>),
        TRUE, net)

\* The endpoint of the hooks of a repository.
hooksEndpoint(owner, repo) ==
    Concat(<<<<"/", "r", "e", "p", "o", "s", "/">>, owner, <<"/">>, repo, <<"/", "h", "o", "o", "k", "s">>>>)

\* CreateHook: POST /repos/<owner>/<repo>/hooks with the hook as JSON.
CreateHook(token, owner, repo, hook, net) ==
    post(token, hooksEndpoint(owner, repo), [marshals |-> TRUE, val |-> hook],
         TRUE, net)

\* GetHooks: GET /repos/<owner>/<repo>/hooks.
GetHooks(token, owner, repo, net) ==
    get(token, hooksEndpoint(owner, repo), TRUE, net)

\* DeleteHook: DELETE /repos/<owner>/<repo>/hooks/<id>.
DeleteHook(token, owner, repo, hookID, net) ==
    delete(token, Concat(<<hooksEndpoint(owner, repo), <<"/">>, Itoa(hookID)>>),
           net)

\* GetBranches: GET /repos/<owner>/<repo>/branches.
GetBranches(token, owner, repo, net) ==
    get(token, Concat(<<<<"/", "r", "e", "p", "o", "s", "/">>, owner, <<"/">>, repo, <<"/", "b", "r", "a", "n", "c", "h", "e", "s">>>>), TRUE, net)

\* GetPullRequests: GET /repos/<owner>/<repo>/pulls.
GetPullRequests(token, owner, repo, net) ==
    get(token, Concat(<<<<"/", "r", "e", "p", "o", "s", "/">>, owner, <<"/">>, repo, <<"/", "p", "u", "l", "l", "s">>>>), TRUE, net)

\* GetUser: logs the first tokenLogPrefix bytes of the token (slicing a
\* shorter token panics), then GET /user.
GetUser(token, net) ==
    IF Len(token) < tokenLogPrefix
    THEN [panicked |-> TRUE, sent |-> <<>>, err |-> NoErr, user |-> Nil]
    ELSE Apply(LAMBDA r :
                 [panicked |-> FALSE, sent |-> r.sent, err |-> r.err,
                  user |-> IF r.err # NoErr THEN Nil ELSE r.result.val],
               get(token, <<"/", "u", "s", "e", "r">>, TRUE, net))

\* GetUserRepos: GET /user/repos?page=<page>&per_page=<limit>&...
GetUserRepos(token, page, limit, net) ==
    LET endpoint ==
            Concat(<<<<"/", "u", "s", "e", "r", "/", "r", "e", "p", "o", "s",
                       "?", "p", "a", "g", "e", "=">>,
                     Itoa(page),
                     <<"&", "p", "e", "r", "_", "p", "a", "g", "e", "=">>,
                     Itoa(limit),
                     <<"&", "s", "o", "r", "t", "=", "u", "p", "d", "a", "t",
                       "e", "d", "&", "d", "i", "r", "e", "c", "t", "i", "o",
                       "n", "=", "d", "e", "s", "c">>>>)
    IN  Apply(LAMBDA r :
                [sent |-> r.sent, err |-> r.err,
                 repos |-> IF r.err # NoErr THEN <<>> ELSE r.result.val],
              get(token, endpoint, TRUE, net))

\* GetRepo: GET /repos/<owner>/<repo>.
GetRepo(token, owner, repo, net) ==
    Apply(LAMBDA r :
            [sent |-> r.sent, err |-> r.err,
             repo |-> IF r.err # NoErr THEN Nil ELSE r.result.val],
          get(token, Concat(<<<<"/", "r", "e", "p", "o", "s", "/">>, owner,
                              <<"/">>, repo>>), TRUE, net))

----------------------------------------------------------------------------
(* Conversions (convert.go, helper.go).                                    *)

\* A nil pointer was dereferenced: the goroutine panics.
Crash == [panicked |-> TRUE]

\* strings.ReplaceAll, for a non-empty old.
RECURSIVE ReplaceAll(_, _, _)
ReplaceAll(s, old, new) ==
    LET i == Index(s, old)
    IN  IF i = -1 THEN s
        ELSE SubSeq(s, 1, i) \o new
             \o ReplaceAll(SubSeq(s, i + Len(old) + 1, Len(s)), old, new)

RECURSIVE TrimRightZeros(_)
TrimRightZeros(s) ==
    IF s # <<>> /\ s[Len(s)] = "0"
    THEN TrimRightZeros(SubSeq(s, 1, Len(s) - 1))
    ELSE s

\* fmt.Sprint of a decoded JSON id.  A string prints as itself and a missing
\* id as "<nil>"; a number was decoded to a float64 and prints with %v: a
\* whole number below 10^6 in digits, a larger one as d.ddde+XX.
SprintID(id) ==
    IF id = Nil THEN <<"<", "n", "i", "l", ">">>
    ELSE IF "str" \in DOMAIN id THEN id.str
    ELSE LET digits == Itoa(id.num)
             exp == Len(digits) - 1
             frac == TrimRightZeros(Tail(digits))
         IN  IF exp < 6 THEN digits
             ELSE Concat(<<<<Head(digits)>>,
                           IF frac = <<>> THEN <<>> ELSE <<".">> \o frac,
                           <<"e", "+">>,
                           IF exp < 10 THEN <<"0">> ELSE <<>>,
                           Itoa(exp)>>)

\* fixMalformedAvatar that cuts at the first slash of the "///".
fixMalformedAvatarFromFirstSlash(url) ==
    LET index == Index(url, <<"/", "/", "/">>)
    IN  IF index # -1 THEN SubSeq(url, index + 1, Len(url))
        ELSE IF Index(url, <<"/", "/", "a", "v", "a", "t", "a", "r", "s", "/">>) # -1
        THEN ReplaceAll(url,
                        <<"/", "/", "a", "v", "a", "t", "a", "r", "s", "/">>,
                        <<"/", "a", "v", "a", "t", "a", "r", "s", "/">>)
        ELSE url

\* fixMalformedAvatar: cut at the second slash of the first "///", else
\* replace every "//avatars/" by "/avatars/".
fixMalformedAvatar(url) ==
    LET index == Index(url, <<"/", "/", "/">>)
    IN  IF index # -1 THEN SubSeq(url, index + 2, Len(url))
        ELSE IF Index(url, <<"/", "/", "a", "v", "a", "t", "a", "r", "s", "/">>) # -1
        THEN ReplaceAll(url,
                        <<"/", "/", "a", "v", "a", "t", "a", "r", "s", "/">>,
                        <<"/", "a", "v", "a", "t", "a", "r", "s", "/">>)
        ELSE url

\* expandAvatar: [val |-> the expanded URL], or Crash: the error of
\* url.Parse(baseURL) is dropped and the nil *url.URL is written to.
expandAvatar(baseURL, avatarURL) ==
    IF avatarURL = <<>> THEN [val |-> <<>>]
    ELSE IF HasPrefix(avatarURL, <<"h", "t", "t", "p">>) THEN [val |-> avatarURL]
    ELSE IF HasPrefix(avatarURL, <<"/", "/">>)
    THEN [val |-> <<"h", "t", "t", "p", "s", ":">> \o avatarURL]
    ELSE IF HasPrefix(avatarURL, <<"/">>)
    THEN IF ~ParseURL(baseURL).ok THEN Crash
         ELSE [val |-> URLString([ParseURL(baseURL) EXCEPT !.path = avatarURL])]
    ELSE [val |-> PathJoin(baseURL, avatarURL)]

\* toRepo: a GitCode Repository to a model.Repo.
toRepo(from) ==
    LET fullName == from.FullName
        parts == Split(fullName, "/")
        split == fullName # <<>> /\ Len(parts) >= 2
        owner == IF split /\ parts[1] # <<>> THEN parts[1]
                 ELSE IF from.Namespace.Path # <<>> THEN from.Namespace.Path
                 ELSE <<>>
        name == IF split /\ parts[2] # <<>> THEN parts[2]
                ELSE IF from.Name # <<>> THEN from.Name
                ELSE <<>>
        forgeURL == IF from.WebURL # <<>> THEN from.WebURL
                    ELSE Concat(<<defaultURL, <<"/">>, fullName>>)
        cloneURL == IF from.HTTPURLToRepo # <<>> THEN from.HTTPURLToRepo
                    ELSE Concat(<<defaultURL, <<"/">>, fullName,
                                  <<".", "g", "i", "t">>>>)
        cloneSSH == IF from.SSHURLToRepo # <<>> THEN from.SSHURLToRepo
                    ELSE Concat(<<<<"g", "i", "t", "@">>,
                                  TrimPrefix(defaultURL,
                                             <<"h", "t", "t", "p", "s", ":", "/", "/">>),
                                  <<":">>, fullName, <<".", "g", "i", "t">>>>)
        avatar == IF from.Creator.Photo # <<>>
                  THEN expandAvatar(defaultURL, from.Creator.Photo).val
                  ELSE <<>>
    IN  [ForgeRemoteID |-> Itoa(from.ID),
         Owner |-> owner,
         Name |-> name,
         FullName |-> fullName,
         Avatar |-> avatar,
         ForgeURL |-> forgeURL,
         Clone |-> cloneURL,
         CloneSSH |-> cloneSSH,
         Branch |-> from.DefaultBranch,
         IsSCMPrivate |-> from.Private,
         Perm |-> [Pull |-> from.Permission.Pull,
                   Push |-> from.Permission.Push,
                   Admin |-> from.Permission.Admin]]

----------------------------------------------------------------------------
(* The forge (gitcode.go).                                                 *)

ForgeTypeGitCode == "gitcode"

\* New: the GitCode struct has the two OAuth fields and pageSize, which New
\* leaves at zero.
New(opts) ==
    [oAuthClientID |-> opts.OAuthClientID,
     oAuthClientSecret |-> opts.OAuthClientSecret,
     pageSize |-> 0]

Name(c) == <<"g", "i", "t", "c", "o", "d", "e">>

URL(c) == defaultURL

authorizeTokenURL(base) ==
    base \o <<"/", "o", "a", "u", "t", "h", "/", "a", "u", "t", "h", "o", "r",
              "i", "z", "e">>

accessTokenURL(base) ==
    base \o <<"/", "o", "a", "u", "t", "h", "/", "t", "o", "k", "e", "n">>

\* oauth2Config; host is server.Config.Server.OAuthHost.
oauth2Config(c, host) ==
    [ClientID |-> c.oAuthClientID,
     ClientSecret |-> c.oAuthClientSecret,
     AuthURL |-> authorizeTokenURL(defaultURL),
     TokenURL |-> accessTokenURL(defaultURL),
     RedirectURL |-> host \o <<"/", "a", "u", "t", "h", "o", "r", "i", "z", "e">>]

\* oauth2.Config.AuthCodeURL: the AuthURL, '?' (or '&' after a query), and
\* the parameters sorted by name and query-escaped; redirect_uri and state
\* are left out when empty.
AuthCodeURL(config, state) ==
    LET param(k, v) == Concat(<<k, <<"=">>, QueryEscape(v)>>)
        params ==
            <<param(<<"c", "l", "i", "e", "n", "t", "_", "i", "d">>,
                    config.ClientID)>>
            \o (IF config.RedirectURL # <<>>
                THEN <<param(<<"r", "e", "d", "i", "r", "e", "c", "t", "_",
                               "u", "r", "i">>, config.RedirectURL)>>
                ELSE <<>>)
            \o <<param(<<"r", "e", "s", "p", "o", "n", "s", "e", "_", "t", "y",
                         "p", "e">>, <<"c", "o", "d", "e">>)>>
            \o (IF state # <<>>
                THEN <<param(<<"s", "t", "a", "t", "e">>, state)>>
                ELSE <<>>)
    IN  Concat(<<config.AuthURL,
                 IF Contains(config.AuthURL, <<"?">>) THEN <<"&">> ELSE <<"?">>,
                 JoinWith(params, "&")>>)

\* What reqs records of one oauth2.Config.Exchange.
ExchangeOf(config, code) ==
    [exchange |-> TRUE, url |-> config.TokenURL, code |-> code]

\* Login with the code exchanged before it is looked at.
LoginExchangeFirst(c, host, req, exchange, net) ==
    LET config == oauth2Config(c, host)
    IN  [panicked |-> FALSE, sent |-> <<ExchangeOf(config, req.Code)>>,
         user |-> Nil, redirect |-> AuthCodeURL(config, req.State),
         err |-> IF Len(req.Code) = 0 THEN NoErr ELSE exchange.err]

\* Login: without a code, the redirect URL; with one, the code is exchanged
\* for a token and the token's account is fetched.  exchange is what
\* config.Exchange returns and net what the network answers to GetUser.
Login(c, host, req, exchange, net) ==
    LET config == oauth2Config(c, host)
        redirectURL == AuthCodeURL(config, req.State)
        ex == ExchangeOf(config, req.Code)
    IN  IF Len(req.Code) = 0
        THEN [panicked |-> FALSE, sent |-> <<>>, user |-> Nil,
              redirect |-> redirectURL, err |-> NoErr]
        ELSE IF exchange.err # NoErr
        THEN [panicked |-> FALSE, sent |-> <<ex>>, user |-> Nil,
              redirect |-> redirectURL, err |-> exchange.err]
        ELSE Apply(LAMBDA account :
                IF account.panicked
                THEN [panicked |-> TRUE, sent |-> <<ex>>, user |-> Nil,
                      redirect |-> <<>>, err |-> NoErr]
                ELSE IF account.err # NoErr
                THEN [panicked |-> FALSE, sent |-> <<ex>> \o account.sent,
                      user |-> Nil, redirect |-> redirectURL,
                      err |-> account.err]
                ELSE [panicked |-> FALSE, sent |-> <<ex>> \o account.sent,
                      user |-> [AccessToken |-> exchange.token.AccessToken,
                                RefreshToken |-> exchange.token.RefreshToken,
                                Expiry |-> exchange.token.Expiry,
                                Login |-> account.user.Login,
                                Email |-> account.user.Email,
                                ForgeRemoteID |-> SprintID(account.user.ID),
                                Avatar |-> expandAvatar(defaultURL,
                                               account.user.AvatarURL).val],
                      redirect |-> redirectURL, err |-> NoErr],
              GetUser(exchange.token.AccessToken, net))

\* Auth: the login of the token's account.
Auth(token, net) ==
    Apply(LAMBDA r :
            [panicked |-> r.panicked, sent |-> r.sent,
             login |-> IF r.panicked \/ r.err # NoErr THEN <<>>
                       ELSE r.user.Login,
             err |-> r.err],
          GetUser(token, net))

\* Refresh that stores the new token whenever the source gives no error.
RefreshStoresEmptyToken(c, host, user, source) ==
    IF source.err # NoErr
    THEN [ok |-> FALSE, err |-> source.err, user |-> user,
          config |-> [oauth2Config(c, host) EXCEPT !.RedirectURL = <<>>]]
    ELSE [ok |-> Len(source.token.AccessToken) # 0, err |-> NoErr,
          user |-> [user EXCEPT !.AccessToken = source.token.AccessToken,
                                !.RefreshToken = source.token.RefreshToken,
                                !.Expiry = source.token.Expiry],
          config |-> [oauth2Config(c, host) EXCEPT !.RedirectURL = <<>>]]

\* Refresh: source is what the token source of the configuration (without
\* its redirect URL) returns for the user's token; user is *user after the
\* call.
Refresh(c, host, user, source) ==
    IF source.err # NoErr \/ Len(source.token.AccessToken) = 0
    THEN [ok |-> FALSE, err |-> source.err, user |-> user,
          config |-> [oauth2Config(c, host) EXCEPT !.RedirectURL = <<>>]]
    ELSE [ok |-> TRUE, err |-> NoErr,
          user |-> [user EXCEPT !.AccessToken = source.token.AccessToken,
                                !.RefreshToken = source.token.RefreshToken,
                                !.Expiry = source.token.Expiry],
          config |-> [oauth2Config(c, host) EXCEPT !.RedirectURL = <<>>]]

ErrParseURL == [e |-> "parse URL"]
ErrSplitHostPort == [e |-> "split host and port"]

\* common.ExtractHostFromCloneURL: the host of the parsed URL, without its
\* port.
ExtractHostFromCloneURL(cloneURL) ==
    LET u == ParseURL(cloneURL)
        colons == {i \in 1..Len(u.host) : u.host[i] = ":"}
    IN  IF ~u.ok THEN [host |-> <<>>, err |-> ErrParseURL]
        ELSE IF colons = {} THEN [host |-> u.host, err |-> NoErr]
        ELSE IF Cardinality(colons) > 1
        THEN [host |-> <<>>, err |-> ErrSplitHostPort]
        ELSE [host |-> SubSeq(u.host, 1, Min(colons) - 1), err |-> NoErr]

\* Netrc with the login and the password exchanged.
NetrcSwapped(u, r) ==
    LET h == ExtractHostFromCloneURL(r.Clone)
    IN  IF h.err # NoErr THEN [netrc |-> Nil, err |-> h.err]
        ELSE [netrc |-> [Login |-> IF u # Nil THEN u.AccessToken ELSE <<>>,
                         Password |-> IF u # Nil THEN u.Login ELSE <<>>,
                         Machine |-> h.host,
                         Type |-> ForgeTypeGitCode],
              err |-> NoErr]

\* Netrc: the user's login and token for the host of the clone URL.
Netrc(u, r) ==
    LET login == IF u # Nil THEN u.Login ELSE <<>>
        token == IF u # Nil THEN u.AccessToken ELSE <<>>
        h == ExtractHostFromCloneURL(r.Clone)
    IN  IF h.err # NoErr THEN [netrc |-> Nil, err |-> h.err]
        ELSE [netrc |-> [Login |-> login,
                         Password |-> token,
                         Machine |-> h.host,
                         Type |-> ForgeTypeGitCode],
              err |-> NoErr]

\* shared_utils.Paginate(get, -1): pages 1, 2, ... are fetched and their
\* batches appended until a page after the first is shorter than the first
\* or empty; an error ends the loop with no items.  fetch[p] is what fetching
\* page p gives; done is FALSE when the loop wants a page fetch does not have.
RECURSIVE PaginateFrom(_, _, _, _)
PaginateFrom(fetch, page, lenFirstBatch, items) ==
    IF page > Len(fetch)
    THEN [done |-> FALSE, pages |-> page - 1, items |-> <<>>, err |-> NoErr]
    ELSE IF fetch[page].err # NoErr
    THEN [done |-> TRUE, pages |-> page, items |-> <<>>, err |-> fetch[page].err]
    ELSE IF page > 1 /\ (Len(fetch[page].batch) < lenFirstBatch
                         \/ Len(fetch[page].batch) = 0)
    THEN [done |-> TRUE, pages |-> page, items |-> items \o fetch[page].batch,
          err |-> NoErr]
    ELSE PaginateFrom(fetch, page + 1,
                      IF page = 1 THEN Len(fetch[page].batch) ELSE lenFirstBatch,
                      items \o fetch[page].batch)

Paginate(fetch) == PaginateFrom(fetch, 1, -1, <<>>)

\* The closure Repos hands to Paginate, as the sequence of what fetching
\* pages 1, 2, ... gives when the network answers page p with answers[p].
RECURSIVE UserReposPagesFrom(_, _, _)
UserReposPagesFrom(token, answers, page) ==
    IF page > Len(answers) THEN <<>>
    ELSE <<Apply(LAMBDA r : [sent |-> r.sent, err |-> r.err, batch |-> r.repos],
                 GetUserRepos(token, page, defaultPageSize, answers[page]))>>
         \o UserReposPagesFrom(token, answers, page + 1)

UserReposPages(token, answers) == UserReposPagesFrom(token, answers, 1)

\* The requests of the first n pages.
SentBy(fetch, n) == Concat([i \in 1..n |-> fetch[i].sent])

\* Repos that leaves out the batch of the last page.
ReposLastBatchDropped(u, answers) ==
    Apply(LAMBDA fetch :
            Apply(LAMBDA p :
                    [done |-> p.done,
                     pages |-> p.pages,
                     sent |-> SentBy(fetch, p.pages),
                     repos |-> IF p.err # NoErr THEN <<>>
                               ELSE [i \in 1..(Len(p.items)
                                               - Len(fetch[p.pages].batch)) |->
                                        toRepo(p.items[i])],
                     err |-> p.err],
                  Paginate(fetch)),
          UserReposPages(u.AccessToken, answers))

\* Repos: every page of the user's repositories, each repository converted.
Repos(u, answers) ==
    Apply(LAMBDA fetch :
            Apply(LAMBDA p :
                    [done |-> p.done,
                     pages |-> p.pages,
                     sent |-> SentBy(fetch, p.pages),
                     repos |-> IF p.err # NoErr THEN <<>>
                               ELSE [i \in 1..Len(p.items) |->
                                        toRepo(p.items[i])],
                     err |-> p.err],
                  Paginate(fetch)),
          UserReposPages(u.AccessToken, answers))

\* model.ForgeRemoteID.IsValid
IsValid(remoteID) == remoteID # <<>> /\ remoteID # <<"0">>

\* fmt.Errorf("repository with ID %s not found", targetID)
ErrRepoNotFound(targetID) == [e |-> "repository not found", id |-> targetID]

\* The first repository of the list whose id in decimal is targetID, or Nil.
RECURSIVE FindByID(_, _)
FindByID(repos, targetID) ==
    IF repos = <<>> THEN Nil
    ELSE IF Itoa(Head(repos).ID) = targetID THEN Head(repos)
    ELSE FindByID(Tail(repos), targetID)

\* Repo that converts the last repository with the id.
RECURSIVE FindLastByID(_, _)
FindLastByID(repos, targetID) ==
    IF repos = <<>> THEN Nil
    ELSE IF Itoa(repos[Len(repos)].ID) = targetID THEN repos[Len(repos)]
    ELSE FindLastByID(SubSeq(repos, 1, Len(repos) - 1), targetID)

RepoLastMatch(u, remoteID, owner, name, answers, net) ==
    IF IsValid(remoteID)
    THEN Apply(LAMBDA fetch :
                Apply(LAMBDA p :
                        [done |-> p.done,
                         pages |-> p.pages,
                         sent |-> SentBy(fetch, p.pages),
                         repo |-> IF p.err # NoErr
                                     \/ FindLastByID(p.items, remoteID) = Nil
                                  THEN Nil
                                  ELSE toRepo(FindLastByID(p.items, remoteID)),
                         err |-> IF p.err # NoErr THEN p.err
                                 ELSE IF FindLastByID(p.items, remoteID) = Nil
                                 THEN ErrRepoNotFound(remoteID)
                                 ELSE NoErr],
                      Paginate(fetch)),
              UserReposPages(u.AccessToken, answers))
    ELSE Apply(LAMBDA r :
                [done |-> TRUE, pages |-> 0, sent |-> r.sent,
                 repo |-> IF r.err # NoErr THEN Nil ELSE toRepo(r.repo),
                 err |-> r.err],
              GetRepo(u.AccessToken, owner, name, net))

\* Repo: by remote id through the user's repository list when the id is
\* valid, else by owner and name.  answers are the network's answers to the
\* pages of the list, net its answer to GET /repos/<owner>/<name>.
Repo(u, remoteID, owner, name, answers, net) ==
    IF IsValid(remoteID)
    THEN Apply(LAMBDA fetch :
                Apply(LAMBDA p :
                        [done |-> p.done,
                         pages |-> p.pages,
                         sent |-> SentBy(fetch, p.pages),
                         repo |-> IF p.err # NoErr
                                     \/ FindByID(p.items, remoteID) = Nil
                                  THEN Nil
                                  ELSE toRepo(FindByID(p.items, remoteID)),
                         err |-> IF p.err # NoErr THEN p.err
                                 ELSE IF FindByID(p.items, remoteID) = Nil
                                 THEN ErrRepoNotFound(remoteID)
                                 ELSE NoErr],
                      Paginate(fetch)),
              UserReposPages(u.AccessToken, answers))
    ELSE Apply(LAMBDA r :
                [done |-> TRUE, pages |-> 0, sent |-> r.sent,
                 repo |-> IF r.err # NoErr THEN Nil ELSE toRepo(r.repo),
                 err |-> r.err],
              GetRepo(u.AccessToken, owner, name, net))

\* The URL makeRequest builds for an endpoint.
requestURL(token, endpoint) ==
    IF token = <<>> THEN defaultAPI \o endpoint
    ELSE Concat(<<defaultAPI, endpoint,
                  IF Contains(defaultAPI \o endpoint, <<"?">>) THEN <<"&">>
                  ELSE <<"?">>,
                  accessTokenParam, <<"=">>, token>>)

\* err.Error(): the text of an error of a client call for url.  The errors
\* of http.Client.Do and of http.NewRequestWithContext quote the URL.
ErrorTextOf(err, verb, url) ==
    IF err.e = "API error"
    THEN Concat(<<<<"A", "P", "I", " ", "e", "r", "r", "o", "r", " ">>, Itoa(err.status), <<":", " ">>, err.body>>)
    ELSE IF err = ErrTransport
    THEN Concat(<<verb, <<" ">>, url, <<":", " ", "E", "O", "F">>>>)
    ELSE IF err = ErrCreateRequest
    THEN Concat(<<<<"c", "r", "e", "a", "t", "e", " ", "r", "e", "q", "u", "e", "s", "t", ":", " ", "p", "a", "r", "s", "e", " ">>, url,
                  <<":", " ", "i", "n", "v", "a", "l", "i", "d", " ", "c", "o", "n", "t", "r", "o", "l", " ", "c", "h", "a", "r", "a", "c", "t", "e", "r", " ", "i", "n", " ", "U", "R", "L">>>>)
    ELSE IF err = ErrReadBody THEN <<"u", "n", "e", "x", "p", "e", "c", "t", "e", "d", " ", "E", "O", "F">>
    ELSE <<"i", "n", "v", "a", "l", "i", "d", " ", "c", "h", "a", "r", "a", "c", "t", "e", "r">>

\* The text of an error of a GET.
ErrorText(err, url) == ErrorTextOf(err, <<"G", "e", "t">>, url)

\* &forge_types.ErrConfigNotFound{Configs: []string{f}}
ErrConfigNotFound(f) == [e |-> "config not found", Configs |-> <<f>>]

\* errors.Join
Join(a, b) == [e |-> "joined", errs |-> <<a, b>>]

\* The endpoint GetFileContent builds.
fileContentEndpoint(owner, repo, path, ref) ==
    Concat(<<<<"/", "r", "e", "p", "o", "s", "/">>, owner, <<"/">>, repo, <<"/", "r", "a", "w", "/">>, path,
             IF ref # <<>> THEN <<"?", "r", "e", "f", "=">> \o QueryEscape(ref) ELSE <<>>>>)

\* File that reads from the default branch before the commit.
FileBranchFirst(u, r, b, f, net) ==
    LET ref == IF r.Branch # <<>> THEN r.Branch
               ELSE IF b.Commit # <<>> THEN b.Commit
               ELSE <<"m", "a", "i", "n">>
        url == requestURL(u.AccessToken,
                          fileContentEndpoint(r.Owner, r.Name, f, ref))
    IN  Apply(LAMBDA c :
                IF c.err # NoErr
                THEN [sent |-> c.sent, data |-> Nil,
                      err |-> IF Contains(ErrorText(c.err, url), <<"4", "0", "4">>)
                              THEN Join(c.err, ErrConfigNotFound(f))
                              ELSE c.err]
                ELSE [sent |-> c.sent, data |-> c.result.val, err |-> NoErr],
              GetFileContent(u.AccessToken, r.Owner, r.Name, f, ref, net))

\* File: the content of f at the pipeline's commit, else at the
\* repository's branch, else at "main".
File(u, r, b, f, net) ==
    LET ref == IF b.Commit # <<>> THEN b.Commit
               ELSE IF r.Branch # <<>> THEN r.Branch
               ELSE <<"m", "a", "i", "n">>
        url == requestURL(u.AccessToken,
                          fileContentEndpoint(r.Owner, r.Name, f, ref))
    IN  Apply(LAMBDA c :
                IF c.err # NoErr
                THEN [sent |-> c.sent, data |-> Nil,
                      err |-> IF Contains(ErrorText(c.err, url), <<"4", "0", "4">>)
                              THEN Join(c.err, ErrConfigNotFound(f))
                              ELSE c.err]
                ELSE [sent |-> c.sent, data |-> c.result.val, err |-> NoErr],
              GetFileContent(u.AccessToken, r.Owner, r.Name, f, ref, net))

\* The directory of Dir as a path prefix: one leading "/" dropped, a
\* trailing "/" added unless the directory is the root.
targetDirOf(f) ==
    LET targetDir == TrimPrefix(f, <<"/">>)
    IN  IF targetDir # <<>> /\ ~HasSuffix(targetDir, <<"/">>)
        THEN Append(targetDir, "/")
        ELSE targetDir

\* The test of the loop of Dir: a blob, and directly inside the directory.
inTargetDir(entry, targetDir) ==
    /\ entry.Type = <<"b", "l", "o", "b">>
    /\ IF targetDir = <<>>
       THEN ~Contains(entry.Path, <<"/">>)
       ELSE /\ HasPrefix(entry.Path, targetDir)
            /\ ~Contains(TrimPrefix(entry.Path, targetDir), <<"/">>)

\* The test without the check for deeper subdirectories.
belowTargetDir(entry, targetDir) ==
    /\ entry.Type = <<"b", "l", "o", "b">>
    /\ IF targetDir = <<>>
       THEN ~Contains(entry.Path, <<"/">>)
       ELSE HasPrefix(entry.Path, targetDir)

\* The loop of Dir over the entries of the tree; nets[i] is what the
\* network answers when the content of tree[i] is asked for.  A content
\* request that fails skips the entry.
RECURSIVE dirFiles(_, _, _, _, _, _, _)
dirFiles(token, r, commitSHA, targetDir, tree, nets, acc) ==
    IF tree = <<>> THEN acc
    ELSE IF ~inTargetDir(Head(tree), targetDir)
    THEN dirFiles(token, r, commitSHA, targetDir, Tail(tree), Tail(nets), acc)
    ELSE Apply(LAMBDA c :
                 IF c.err # NoErr
                 THEN dirFiles(token, r, commitSHA, targetDir, Tail(tree),
                          Tail(nets),
                          [sent |-> acc.sent \o c.sent, files |-> acc.files])
                 ELSE dirFiles(token, r, commitSHA, targetDir, Tail(tree),
                          Tail(nets),
                          [sent |-> acc.sent \o c.sent,
                           files |-> Append(acc.files,
                                            [Name |-> Head(tree).Path,
                                             Data |-> c.result.val])]),
               GetFileContent(token, r.Owner, r.Name, Head(tree).Path,
                              commitSHA, Head(nets)))

\* The loop that returns every blob below the directory.
RECURSIVE dirFilesBelow(_, _, _, _, _, _, _)
dirFilesBelow(token, r, commitSHA, targetDir, tree, nets, acc) ==
    IF tree = <<>> THEN acc
    ELSE IF ~belowTargetDir(Head(tree), targetDir)
    THEN dirFilesBelow(token, r, commitSHA, targetDir, Tail(tree), Tail(nets), acc)
    ELSE Apply(LAMBDA c :
                 IF c.err # NoErr
                 THEN dirFilesBelow(token, r, commitSHA, targetDir, Tail(tree),
                          Tail(nets),
                          [sent |-> acc.sent \o c.sent, files |-> acc.files])
                 ELSE dirFilesBelow(token, r, commitSHA, targetDir, Tail(tree),
                          Tail(nets),
                          [sent |-> acc.sent \o c.sent,
                           files |-> Append(acc.files,
                                            [Name |-> Head(tree).Path,
                                             Data |-> c.result.val])]),
               GetFileContent(token, r.Owner, r.Name, Head(tree).Path,
                              commitSHA, Head(nets)))

\* The loop that stops at the first content request that fails.
RECURSIVE dirFilesUntilFailure(_, _, _, _, _, _, _)
dirFilesUntilFailure(token, r, commitSHA, targetDir, tree, nets, acc) ==
    IF tree = <<>> THEN acc
    ELSE IF ~inTargetDir(Head(tree), targetDir)
    THEN dirFilesUntilFailure(token, r, commitSHA, targetDir, Tail(tree), Tail(nets), acc)
    ELSE Apply(LAMBDA c :
                 IF c.err # NoErr
                 THEN [sent |-> acc.sent \o c.sent, files |-> acc.files]
                 ELSE dirFilesUntilFailure(token, r, commitSHA, targetDir, Tail(tree),
                          Tail(nets),
                          [sent |-> acc.sent \o c.sent,
                           files |-> Append(acc.files,
                                            [Name |-> Head(tree).Path,
                                             Data |-> c.result.val])]),
               GetFileContent(token, r.Owner, r.Name, Head(tree).Path,
                              commitSHA, Head(nets)))

\* Dir that returns every blob below the directory.
DirAllBelow(u, r, b, f, branchNet, treeNet, contentNets) ==
    LET look == IF b.Commit # <<>>
                THEN [sent |-> <<>>, err |-> NoErr, commitSHA |-> b.Commit]
                ELSE Apply(LAMBDA g :
                             [sent |-> g.sent, err |-> g.err,
                              commitSHA |-> IF g.err = NoErr
                                            THEN g.result.val.Commit.ID
                                            ELSE <<>>],
                           GetBranch(u.AccessToken, r.Owner, r.Name,
                                     IF r.Branch # <<>> THEN r.Branch
                                     ELSE <<"m", "a", "i", "n">>,
                                     branchNet))
    IN  IF look.err # NoErr
        THEN [sent |-> look.sent, files |-> <<>>, err |-> NoErr]
        ELSE Apply(LAMBDA t :
                     IF t.err # NoErr
                     THEN [sent |-> look.sent \o t.sent, files |-> <<>>,
                           err |-> NoErr]
                     ELSE Apply(LAMBDA d :
                                  [sent |-> d.sent, files |-> d.files,
                                   err |-> NoErr],
                                dirFilesBelow(u.AccessToken, r, look.commitSHA,
                                    targetDirOf(f), t.result.val.Tree,
                                    contentNets,
                                    [sent |-> look.sent \o t.sent,
                                     files |-> <<>>])),
                   GetTree(u.AccessToken, r.Owner, r.Name, look.commitSHA,
                           TRUE, treeNet))

\* Dir that stops at the first content request that fails.
DirStopsAtFailedFile(u, r, b, f, branchNet, treeNet, contentNets) ==
    LET look == IF b.Commit # <<>>
                THEN [sent |-> <<>>, err |-> NoErr, commitSHA |-> b.Commit]
                ELSE Apply(LAMBDA g :
                             [sent |-> g.sent, err |-> g.err,
                              commitSHA |-> IF g.err = NoErr
                                            THEN g.result.val.Commit.ID
                                            ELSE <<>>],
                           GetBranch(u.AccessToken, r.Owner, r.Name,
                                     IF r.Branch # <<>> THEN r.Branch
                                     ELSE <<"m", "a", "i", "n">>,
                                     branchNet))
    IN  IF look.err # NoErr
        THEN [sent |-> look.sent, files |-> <<>>, err |-> NoErr]
        ELSE Apply(LAMBDA t :
                     IF t.err # NoErr
                     THEN [sent |-> look.sent \o t.sent, files |-> <<>>,
                           err |-> NoErr]
                     ELSE Apply(LAMBDA d :
                                  [sent |-> d.sent, files |-> d.files,
                                   err |-> NoErr],
                                dirFilesUntilFailure(u.AccessToken, r, look.commitSHA,
                                    targetDirOf(f), t.result.val.Tree,
                                    contentNets,
                                    [sent |-> look.sent \o t.sent,
                                     files |-> <<>>])),
                   GetTree(u.AccessToken, r.Owner, r.Name, look.commitSHA,
                           TRUE, treeNet))

\* Dir: the commit of the pipeline, else the head of the repository's
\* branch, else the head of "main"; the recursive tree of that commit; the
\* content of every blob directly inside f.  A failed branch or tree
\* request gives an empty list and no error.  The list is a sequence: the
\* model does not tell a nil slice from an empty one.
Dir(u, r, b, f, branchNet, treeNet, contentNets) ==
    LET look == IF b.Commit # <<>>
                THEN [sent |-> <<>>, err |-> NoErr, commitSHA |-> b.Commit]
                ELSE Apply(LAMBDA g :
                             [sent |-> g.sent, err |-> g.err,
                              commitSHA |-> IF g.err = NoErr
                                            THEN g.result.val.Commit.ID
                                            ELSE <<>>],
                           GetBranch(u.AccessToken, r.Owner, r.Name,
                                     IF r.Branch # <<>> THEN r.Branch
                                     ELSE <<"m", "a", "i", "n">>,
                                     branchNet))
    IN  IF look.err # NoErr
        THEN [sent |-> look.sent, files |-> <<>>, err |-> NoErr]
        ELSE Apply(LAMBDA t :
                     IF t.err # NoErr
                     THEN [sent |-> look.sent \o t.sent, files |-> <<>>,
                           err |-> NoErr]
                     ELSE Apply(LAMBDA d :
                                  [sent |-> d.sent, files |-> d.files,
                                   err |-> NoErr],
                                dirFiles(u.AccessToken, r, look.commitSHA,
                                    targetDirOf(f), t.result.val.Tree,
                                    contentNets,
                                    [sent |-> look.sent \o t.sent,
                                     files |-> <<>>])),
                   GetTree(u.AccessToken, r.Owner, r.Name, look.commitSHA,
                           TRUE, treeNet))

\* convertPullRequest
convertPullRequest(from) == [Index |-> Itoa(from.Number), Title |-> from.Title]

\* Branches: the names of the branches GetBranches lists; the list options
\* p are not read.
Branches(u, r, p, net) ==
    Apply(LAMBDA b :
            IF b.err # NoErr THEN [sent |-> b.sent, list |-> Nil, err |-> b.err]
            ELSE [sent |-> b.sent,
                  list |-> [i \in 1..Len(b.result.val) |-> b.result.val[i].Name],
                  err |-> NoErr],
          GetBranches(u.AccessToken, r.Owner, r.Name, net))

\* PullRequests: the pull requests GetPullRequests lists, converted; an
\* error whose text holds "404" gives an empty list and no error.  The
\* list options p are not read.
PullRequests(u, r, p, net) ==
    LET url == requestURL(u.AccessToken,
                          Concat(<<<<"/", "r", "e", "p", "o", "s", "/">>, r.Owner, <<"/">>, r.Name, <<"/", "p", "u", "l", "l", "s">>>>))
    IN  Apply(LAMBDA g :
                IF g.err # NoErr
                THEN IF Contains(ErrorText(g.err, url), <<"4", "0", "4">>)
                     THEN [sent |-> g.sent, list |-> <<>>, err |-> NoErr]
                     ELSE [sent |-> g.sent, list |-> Nil, err |-> g.err]
                ELSE [sent |-> g.sent,
                      list |-> [i \in 1..Len(g.result.val) |->
                                  convertPullRequest(g.result.val[i])],
                      err |-> NoErr],
              GetPullRequests(u.AccessToken, r.Owner, r.Name, net))

\* fmt.Errorf("could not find repository")
ErrCouldNotFindRepository == [e |-> "could not find repository"]

\* Activate: registers a webhook for link; it does not look at the hooks
\* the repository has.  An error whose text holds "404" becomes "could not
\* find repository".
Activate(u, r, link, net) ==
    LET hook == [URL |-> link, ContentType |-> <<"j", "s", "o", "n">>,
                 Events |-> <<<<"p", "u", "s", "h">>, <<"p", "u", "l", "l", "_", "r", "e", "q", "u", "e", "s", "t">>, <<"r", "e", "l", "e", "a", "s", "e">>>>,
                 Active |-> TRUE]
        url == requestURL(u.AccessToken, hooksEndpoint(r.Owner, r.Name))
    IN  Apply(LAMBDA c :
                [sent |-> c.sent,
                 err |-> IF c.err = NoErr THEN NoErr
                         ELSE IF Contains(ErrorTextOf(c.err, <<"P", "o", "s", "t">>, url), <<"4", "0", "4">>)
                         THEN ErrCouldNotFindRepository
                         ELSE c.err],
              CreateHook(u.AccessToken, r.Owner, r.Name, hook, net))

\* The first hook of the list whose URL is link; Nil when there is none.
firstHook(hooks, link) ==
    LET at == {i \in 1..Len(hooks) : hooks[i].URL = link}
    IN  IF at = {} THEN Nil ELSE hooks[Min(at)]

\* The last hook of the list whose URL is link; Nil when there is none.
lastHook(hooks, link) ==
    LET at == {i \in 1..Len(hooks) : hooks[i].URL = link}
    IN  IF at = {} THEN Nil ELSE hooks[Max(at)]

\* Deactivate that deletes the last hook of the link.
DeactivateLastHook(u, r, link, listNet, deleteNet) ==
    Apply(LAMBDA l :
            IF l.err # NoErr THEN [sent |-> l.sent, err |-> l.err]
            ELSE IF lastHook(l.result.val, link) = Nil
            THEN [sent |-> l.sent, err |-> NoErr]
            ELSE Apply(LAMBDA d : [sent |-> l.sent \o d.sent, err |-> d.err],
                       DeleteHook(u.AccessToken, r.Owner, r.Name,
                                  lastHook(l.result.val, link).ID, deleteNet)),
          GetHooks(u.AccessToken, r.Owner, r.Name, listNet))

\* Deactivate: lists the hooks and deletes the first whose URL is link.
Deactivate(u, r, link, listNet, deleteNet) ==
    Apply(LAMBDA l :
            IF l.err # NoErr THEN [sent |-> l.sent, err |-> l.err]
            ELSE IF firstHook(l.result.val, link) = Nil
            THEN [sent |-> l.sent, err |-> NoErr]
            ELSE Apply(LAMBDA d : [sent |-> l.sent \o d.sent, err |-> d.err],
                       DeleteHook(u.AccessToken, r.Owner, r.Name,
                                  firstHook(l.result.val, link).ID, deleteNet)),
          GetHooks(u.AccessToken, r.Owner, r.Name, listNet))

----------------------------------------------------------------------------
(* Webhooks (helper.go, types.go).                                         *)

EventPush == "push"
EventPull == "pull_request"
EventPullClosed == "pull_request_closed"
EventRelease == "release"
EventTag == "tag"

\* The values of the event-type header parseHook knows.
hookPush == "hookPush"
hookPullRequest == "hookPullRequest"
hookRelease == "hookRelease"

ErrIgnoreEvent == [e |-> "ignore event"]

\* A request body is not JSON, or the payload of a push, a merge request or
\* a release.  Decoded into the structure of its own event it gives its
\* payload; decoded into another it gives that structure with nothing set
\* but the project, which the push and the merge-request payloads share.
ZeroProject ==
    [ID |-> 0, Name |-> <<>>, WebURL |-> <<>>, AvatarURL |-> <<>>,
     GitSSHURL |-> <<>>, GitHTTPURL |-> <<>>, Namespace |-> <<>>,
     VisibilityLevel |-> 0, PathWithNamespace |-> <<>>, DefaultBranch |-> <<>>]

ZeroPushHook ==
    [Ref |-> <<>>, After |-> <<>>, Message |-> <<>>, UserAvatar |-> <<>>,
     UserUsername |-> <<>>, UserEmail |-> <<>>, Project |-> ZeroProject,
     Commits |-> <<>>]

ZeroPullRequestHook ==
    [User |-> [Username |-> <<>>, Email |-> <<>>, AvatarURL |-> <<>>],
     Project |-> ZeroProject,
     MergeRequest |->
        [IID |-> 0, Title |-> <<>>, State |-> <<>>, Action |-> <<>>,
         TargetBranch |-> <<>>, SourceBranch |-> <<>>, URL |-> <<>>,
         LastCommit |-> [ID |-> <<>>],
         Source |-> [ID |-> 0], Target |-> [ID |-> 0]]]

ZeroReleaseHook == [Repo |-> Nil, Sender |-> Nil, Release |-> Nil]

ProjectOf(body) ==
    IF body.kind \in {"push", "pull_request"} THEN body.hook.Project
    ELSE ZeroProject

\* parsePush, parsePullRequest, parseRelease: json.Decoder.Decode into the
\* structure.
parsePush(body) ==
    IF body.kind = "garbage" THEN NoJSON
    ELSE IF body.kind = "push" THEN [val |-> body.hook]
    ELSE [val |-> [ZeroPushHook EXCEPT !.Project = ProjectOf(body)]]

parsePullRequest(body) ==
    IF body.kind = "garbage" THEN NoJSON
    ELSE IF body.kind = "pull_request" THEN [val |-> body.hook]
    ELSE [val |-> [ZeroPullRequestHook EXCEPT !.Project = ProjectOf(body)]]

parseRelease(body) ==
    IF body.kind = "garbage" THEN NoJSON
    ELSE IF body.kind = "release" THEN [val |-> body.hook]
    ELSE [val |-> ZeroReleaseHook]

\* getChangedFilesFromPushHook: the added, modified and removed files of
\* every commit, each file once, in the order of its first occurrence.
RECURSIVE Dedup(_, _)
Dedup(files, seen) ==
    IF files = <<>> THEN <<>>
    ELSE IF Head(files) \in seen THEN Dedup(Tail(files), seen)
    ELSE <<Head(files)>> \o Dedup(Tail(files), seen \cup {Head(files)})

getChangedFilesRemovedFirst(hook) ==
    Dedup(Concat([i \in 1..Len(hook.Commits) |->
                    Concat(<<hook.Commits[i].Removed, hook.Commits[i].Added,
                             hook.Commits[i].Modified>>)]),
          {})

getChangedFilesFromPushHook(hook) ==
    Dedup(Concat([i \in 1..Len(hook.Commits) |->
                    Concat(<<hook.Commits[i].Added, hook.Commits[i].Modified,
                             hook.Commits[i].Removed>>)]),
          {})

\* pipelineFromPush built with the event of a tag.
pipelineFromPushAsTag(hook, now) ==
    [Event |-> EventTag,
     Commit |-> hook.After,
     Ref |-> hook.Ref,
     ForgeURL |-> hook.Project.WebURL,
     Branch |-> hook.Ref,
     Message |-> hook.Message,
     Avatar |-> <<>>,
     Author |-> hook.UserUsername,
     Email |-> hook.UserEmail,
     Timestamp |-> now,
     Sender |-> hook.UserUsername,
     ChangedFiles |-> <<>>]

\* pipelineFromPush with the message and the link of the last commit.
pipelineFromPushLastCommit(hook, now) ==
    LET avatar == expandAvatar(defaultURL, fixMalformedAvatar(hook.UserAvatar))
        message == IF Len(hook.Commits) > 0
                   THEN hook.Commits[Len(hook.Commits)].Message
                   ELSE hook.Message
        link == IF Len(hook.Commits) > 0 THEN hook.Commits[Len(hook.Commits)].URL
                ELSE hook.Project.WebURL
    IN  [Event |-> EventPush,
         Commit |-> hook.After,
         Ref |-> hook.Ref,
         ForgeURL |-> link,
         Branch |-> TrimPrefix(hook.Ref, <<"r", "e", "f", "s", "/", "h", "e",
                                           "a", "d", "s", "/">>),
         Message |-> message,
         Avatar |-> avatar.val,
         Author |-> hook.UserUsername,
         Email |-> hook.UserEmail,
         Timestamp |-> now,
         Sender |-> hook.UserUsername,
         ChangedFiles |-> getChangedFilesFromPushHook(hook)]

\* pipelineFromPush; now is time.Now().UTC().Unix().
pipelineFromPush(hook, now) ==
    LET avatar == expandAvatar(defaultURL, fixMalformedAvatar(hook.UserAvatar))
        message == IF Len(hook.Commits) > 0 THEN hook.Commits[1].Message
                   ELSE hook.Message
        link == IF Len(hook.Commits) > 0 THEN hook.Commits[1].URL
                ELSE hook.Project.WebURL
    IN  [Event |-> EventPush,
         Commit |-> hook.After,
         Ref |-> hook.Ref,
         ForgeURL |-> link,
         Branch |-> TrimPrefix(hook.Ref, <<"r", "e", "f", "s", "/", "h", "e",
                                           "a", "d", "s", "/">>),
         Message |-> message,
         Avatar |-> avatar.val,
         Author |-> hook.UserUsername,
         Email |-> hook.UserEmail,
         Timestamp |-> now,
         Sender |-> hook.UserUsername,
         ChangedFiles |-> getChangedFilesFromPushHook(hook)]

\* The repository of a project object of a push or merge-request payload.
repoFromProject(project) ==
    [ForgeRemoteID |-> Itoa(project.ID),
     Owner |-> project.Namespace,
     Name |-> project.Name,
     FullName |-> project.PathWithNamespace,
     Avatar |-> project.AvatarURL,
     ForgeURL |-> project.WebURL,
     Clone |-> project.GitHTTPURL,
     CloneSSH |-> project.GitSSHURL,
     Branch |-> project.DefaultBranch,
     IsSCMPrivate |-> project.VisibilityLevel = 0,
     Perm |-> [Pull |-> TRUE, Push |-> TRUE, Admin |-> FALSE]]

repoFromPushHook(hook) == repoFromProject(hook.Project)

\* repoFromPullRequestHook.
repoFromPullRequestHook(hook) == repoFromProject(hook.Project)

\* pipelineFromPullRequestHook that takes a merged merge request for closed.
pipelineFromPullRequestHookMerged(hook) ==
    Apply(LAMBDA avatar :
            IF avatar = Crash THEN Crash
            ELSE [Event |-> IF hook.MergeRequest.State = <<"m", "e", "r", "g", "e", "d">>
                               \/ hook.MergeRequest.Action = <<"c", "l", "o", "s", "e">>
                               \/ hook.MergeRequest.State
                                    = <<"c", "l", "o", "s", "e", "d">>
                            THEN EventPullClosed ELSE EventPull,
                  Commit |-> hook.MergeRequest.LastCommit.ID,
                  ForgeURL |-> hook.MergeRequest.URL,
                  Ref |-> Concat(<<<<"r", "e", "f", "s", "/", "p", "u", "l", "l", "/">>,
                                   Itoa(hook.MergeRequest.IID),
                                   <<"/", "h", "e", "a", "d">>>>),
                  Branch |-> hook.MergeRequest.TargetBranch,
                  Message |-> hook.MergeRequest.Title,
                  Author |-> hook.User.Username,
                  Avatar |-> avatar.val,
                  Sender |-> hook.User.Username,
                  Email |-> hook.User.Email,
                  Title |-> hook.MergeRequest.Title,
                  Refspec |-> Concat(<<hook.MergeRequest.SourceBranch, <<":">>,
                                       hook.MergeRequest.TargetBranch>>),
                  PullRequestLabels |-> <<>>,
                  FromFork |-> hook.MergeRequest.Source.ID
                                 # hook.MergeRequest.Target.ID],
          expandAvatar(hook.Project.WebURL,
                       fixMalformedAvatar(hook.User.AvatarURL)))

\* pipelineFromPullRequestHook: the pipeline, or Crash when expandAvatar
\* panics.
pipelineFromPullRequestHook(hook) ==
    Apply(LAMBDA avatar :
            IF avatar = Crash THEN Crash
            ELSE [Event |-> IF hook.MergeRequest.Action = <<"c", "l", "o", "s", "e">>
                               \/ hook.MergeRequest.State
                                    = <<"c", "l", "o", "s", "e", "d">>
                            THEN EventPullClosed ELSE EventPull,
                  Commit |-> hook.MergeRequest.LastCommit.ID,
                  ForgeURL |-> hook.MergeRequest.URL,
                  Ref |-> Concat(<<<<"r", "e", "f", "s", "/", "p", "u", "l", "l", "/">>,
                                   Itoa(hook.MergeRequest.IID),
                                   <<"/", "h", "e", "a", "d">>>>),
                  Branch |-> hook.MergeRequest.TargetBranch,
                  Message |-> hook.MergeRequest.Title,
                  Author |-> hook.User.Username,
                  Avatar |-> avatar.val,
                  Sender |-> hook.User.Username,
                  Email |-> hook.User.Email,
                  Title |-> hook.MergeRequest.Title,
                  Refspec |-> Concat(<<hook.MergeRequest.SourceBranch, <<":">>,
                                       hook.MergeRequest.TargetBranch>>),
                  PullRequestLabels |-> <<>>,
                  FromFork |-> hook.MergeRequest.Source.ID
                                 # hook.MergeRequest.Target.ID],
          expandAvatar(hook.Project.WebURL,
                       fixMalformedAvatar(hook.User.AvatarURL)))

\* pipelineFromRelease: the pipeline, or Crash when the repository, the
\* sender or the release is nil, or when expandAvatar panics.
pipelineFromRelease(hook) ==
    IF hook.Repo = Nil \/ hook.Sender = Nil THEN Crash
    ELSE Apply(LAMBDA avatar :
                 IF avatar = Crash \/ hook.Release = Nil THEN Crash
                 ELSE [Event |-> EventRelease,
                       Ref |-> <<"r", "e", "f", "s", "/", "t", "a", "g", "s", "/">>
                               \o hook.Release.TagName,
                       ForgeURL |-> Concat(<<defaultURL, <<"/">>, hook.Repo.FullName,
                                             <<"/", "r", "e", "l", "e", "a", "s",
                                               "e", "s", "/", "t", "a", "g", "/">>,
                                             hook.Release.TagName>>),
                       Branch |-> hook.Repo.DefaultBranch,
                       Message |-> <<"c", "r", "e", "a", "t", "e", "d", " ", "r",
                                     "e", "l", "e", "a", "s", "e", " ">>
                                   \o hook.Release.Name,
                       Avatar |-> avatar.val,
                       Author |-> hook.Sender.Login,
                       Sender |-> hook.Sender.Login,
                       Email |-> hook.Sender.Email,
                       IsPrerelease |-> hook.Release.Prerelease],
               expandAvatar(hook.Repo.HTTPURLToRepo,
                            fixMalformedAvatar(hook.Sender.AvatarURL)))

\* What a hook parser returns when it panics.
HookCrash == [panicked |-> TRUE, repo |-> Nil, pipeline |-> Nil, err |-> NoErr]

\* parsePushHook: the repository and the push pipeline of a decodable body.
parsePushHook(body, now) ==
    IF parsePush(body) = NoJSON
    THEN [panicked |-> FALSE, repo |-> Nil, pipeline |-> Nil, err |-> ErrDecode]
    ELSE [panicked |-> FALSE,
          repo |-> repoFromPushHook(parsePush(body).val),
          pipeline |-> pipelineFromPush(parsePush(body).val, now),
          err |-> NoErr]

\* parsePullRequestHook: the repository and the pipeline of a decodable body.
parsePullRequestHook(body) ==
    IF parsePullRequest(body) = NoJSON
    THEN [panicked |-> FALSE, repo |-> Nil, pipeline |-> Nil, err |-> ErrDecode]
    ELSE Apply(LAMBDA pipeline :
                 IF pipeline = Crash THEN HookCrash
                 ELSE [panicked |-> FALSE,
                       repo |-> repoFromPullRequestHook(parsePullRequest(body).val),
                       pipeline |-> pipeline,
                       err |-> NoErr],
               pipelineFromPullRequestHook(parsePullRequest(body).val))

\* parseReleaseHook: the repository and the pipeline of a decodable body.
parseReleaseHook(body) ==
    IF parseRelease(body) = NoJSON
    THEN [panicked |-> FALSE, repo |-> Nil, pipeline |-> Nil, err |-> ErrDecode]
    ELSE Apply(LAMBDA pipeline :
                 IF pipeline = Crash THEN HookCrash
                 ELSE [panicked |-> FALSE,
                       repo |-> toRepo(parseRelease(body).val.Repo),
                       pipeline |-> pipeline,
                       err |-> NoErr],
               pipelineFromRelease(parseRelease(body).val))

\* parseHook with events it does not know handed to the push parser.
parseHookPushByDefault(event, body, now, ignored) ==
    CASE event = hookPullRequest -> parsePullRequestHook(body)
      [] event = hookRelease -> parseReleaseHook(body)
      [] OTHER -> parsePushHook(body, now)

\* parseHook: the parser of the event named by the event-type header; for
\* any other event no repository and no pipeline, with the error ignored
\* (nil, or one that says the event is ignored).
parseHook(event, body, now, ignored) ==
    CASE event = hookPush -> parsePushHook(body, now)
      [] event = hookPullRequest -> parsePullRequestHook(body)
      [] event = hookRelease -> parseReleaseHook(body)
      [] OTHER -> [panicked |-> FALSE, repo |-> Nil, pipeline |-> Nil,
                   err |-> ignored]

\* strconv.ParseInt(s, 10, 64) for numbers within the range of int64: an
\* optional sign and at least one digit, nothing else.
RECURSIVE digitsValue(_, _)
digitsValue(s, acc) ==
    IF s = <<>> THEN acc
    ELSE digitsValue(Tail(s),
                     10 * acc + (CHOOSE d \in 0..9 : Digit(d) = Head(s)))

ParseInt(s) ==
    LET digits == IF s # <<>> /\ Head(s) \in {"+", "-"} THEN Tail(s) ELSE s
    IN  IF digits = <<>> \/ \E i \in 1..Len(digits) : digits[i] \notin DigitChars
        THEN [ok |-> FALSE, val |-> 0]
        ELSE [ok |-> TRUE,
              val |-> IF Head(s) = "-" THEN 0 - digitsValue(digits, 0)
                      ELSE digitsValue(digits, 0)]

ErrParseInt == [e |-> "strconv.ParseInt"]

\* getChangedFilesForPR: not implemented by the forge; no files, no error.
getChangedFilesForPR(repo, index) == [files |-> <<>>, err |-> NoErr]

\* getTagCommitSHA: not implemented by the forge; no SHA, no error.
getTagCommitSHA(repo, tagName) == [sha |-> <<>>, err |-> NoErr]

\* A field of a pipeline the parser left at its zero value.
CommitOf(pipeline) ==
    IF "Commit" \in DOMAIN pipeline THEN pipeline.Commit ELSE <<>>

ChangedFilesOf(pipeline) ==
    IF "ChangedFiles" \in DOMAIN pipeline THEN pipeline.ChangedFiles ELSE <<>>

\* The record with field f set to v.
WithField(rec, f, v) ==
    [k \in DOMAIN rec \cup {f} |-> IF k = f THEN v ELSE rec[k]]

\* The release step of Hook: a release pipeline without a commit gets the
\* commit getTagCommitSHA returns for the third segment of its ref.
hookTagCommit(h) ==
    IF h.pipeline = Nil THEN h
    ELSE IF h.pipeline.Event # EventRelease \/ CommitOf(h.pipeline) # <<>> THEN h
    ELSE Apply(LAMBDA tagName :
                 Apply(LAMBDA t :
                         IF t.err # NoErr
                         THEN [h EXCEPT !.repo = Nil, !.pipeline = Nil,
                                        !.err = t.err]
                         ELSE [h EXCEPT
                                 !.pipeline = WithField(h.pipeline, "Commit", t.sha),
                                 !.tags = <<[repo |-> h.repo, tagName |-> tagName]>>],
                       getTagCommitSHA(h.repo, tagName)),
               Split(h.pipeline.Ref, "/")[3])

\* The pull-request step of Hook with the number read from the second
\* segment of the ref.
hookChangedFilesSecondSegment(h) ==
    IF h.pipeline = Nil THEN h
    ELSE IF h.pipeline.Event \notin {EventPull, EventPullClosed} THEN h
    ELSE IF ChangedFilesOf(h.pipeline) # <<>> THEN h
    ELSE Apply(LAMBDA index :
                 IF ~index.ok
                 THEN [h EXCEPT !.repo = Nil, !.pipeline = Nil,
                                !.err = ErrParseInt]
                 ELSE Apply(LAMBDA files :
                              [h EXCEPT
                                 !.pipeline = WithField(h.pipeline, "ChangedFiles",
                                                        files.files),
                                 !.lookups = <<[repo |-> h.repo,
                                                index |-> index.val]>>],
                            getChangedFilesForPR(h.repo, index.val)),
               ParseInt(Split(h.pipeline.Ref, "/")[2]))

\* The pull-request step of Hook: a pull-request pipeline without changed
\* files gets those getChangedFilesForPR returns for the number in the
\* third segment of its ref; an error of that call is logged only.
hookChangedFiles(h) ==
    IF h.pipeline = Nil THEN h
    ELSE IF h.pipeline.Event \notin {EventPull, EventPullClosed} THEN h
    ELSE IF ChangedFilesOf(h.pipeline) # <<>> THEN h
    ELSE Apply(LAMBDA index :
                 IF ~index.ok
                 THEN [h EXCEPT !.repo = Nil, !.pipeline = Nil,
                                !.err = ErrParseInt]
                 ELSE Apply(LAMBDA files :
                              [h EXCEPT
                                 !.pipeline = WithField(h.pipeline, "ChangedFiles",
                                                        files.files),
                                 !.lookups = <<[repo |-> h.repo,
                                                index |-> index.val]>>],
                            getChangedFilesForPR(h.repo, index.val)),
               ParseInt(Split(h.pipeline.Ref, "/")[3]))

\* Hook with the pull request number read from the second segment.
HookSecondSegment(event, body, now, ignored) ==
    Apply(LAMBDA p :
            IF p.panicked
            THEN [panicked |-> TRUE, repo |-> Nil, pipeline |-> Nil,
                  err |-> NoErr, tags |-> <<>>, lookups |-> <<>>]
            ELSE IF p.err # NoErr
            THEN [panicked |-> FALSE, repo |-> Nil, pipeline |-> Nil,
                  err |-> p.err, tags |-> <<>>, lookups |-> <<>>]
            ELSE Apply(LAMBDA h : IF h.err # NoErr THEN h ELSE hookChangedFilesSecondSegment(h),
                       hookTagCommit([panicked |-> FALSE, repo |-> p.repo,
                                      pipeline |-> p.pipeline, err |-> NoErr,
                                      tags |-> <<>>, lookups |-> <<>>])),
          parseHook(event, body, now, ignored))

\* Hook: parseHook, then the release step, then the pull-request step.
\* tags and lookups are the calls of getTagCommitSHA and of
\* getChangedFilesForPR it made.
Hook(event, body, now, ignored) ==
    Apply(LAMBDA p :
            IF p.panicked
            THEN [panicked |-> TRUE, repo |-> Nil, pipeline |-> Nil,
                  err |-> NoErr, tags |-> <<>>, lookups |-> <<>>]
            ELSE IF p.err # NoErr
            THEN [panicked |-> FALSE, repo |-> Nil, pipeline |-> Nil,
                  err |-> p.err, tags |-> <<>>, lookups |-> <<>>]
            ELSE Apply(LAMBDA h : IF h.err # NoErr THEN h ELSE hookChangedFiles(h),
                       hookTagCommit([panicked |-> FALSE, repo |-> p.repo,
                                      pipeline |-> p.pipeline, err |-> NoErr,
                                      tags |-> <<>>, lookups |-> <<>>])),
          parseHook(event, body, now, ignored))

----------------------------------------------------------------------------
(* Inputs.                                                                 *)

\* The options the server is started with, and its OAuth host.
OptsSamples ==
    {[OAuthClientID |-> <<"i", "d">>, OAuthClientSecret |-> <<"s">>],
     [OAuthClientID |-> <<"&">>, OAuthClientSecret |-> <<>>]}

OAuthHosts == {<<"h", "t", "t", "p", "s", ":", "/", "/", "c", "i">>}

Configs == {[opts |-> o, OAuthHost |-> h] : o \in OptsSamples, h \in OAuthHosts}

DefaultConfig ==
    [opts |-> [OAuthClientID |-> <<"i", "d">>, OAuthClientSecret |-> <<"s">>],
     OAuthHost |-> <<"h", "t", "t", "p", "s", ":", "/", "/", "c", "i">>]

\* Accounts GET /user can describe.  The id is a JSON number or string.
UserSamples ==
    {[ID |-> [num |-> 7], Login |-> <<"a">>, Email |-> <<"e">>,
      AvatarURL |-> <<>>],
     [ID |-> [str |-> <<"x", "9">>], Login |-> <<"b">>, Email |-> <<>>,
      AvatarURL |-> <<"/", "p">>]}

\* Endpoints the client methods build: fixed ones, one with a query string,
\* and one with a caller-supplied name in its path.
Endpoints ==
    {<<"/", "u", "s", "e", "r">>,
     <<"/", "u", "s", "e", "r", "/", "r", "e", "p", "o", "s", "?", "p", "a",
       "g", "e", "=", "1">>}
    \cup {<<"/", "r", "e", "p", "o", "s", "/">> \o n : n \in Names}

RequestBodies == {NoBody, [marshals |-> TRUE], [marshals |-> FALSE]}

\* The repository with the given id, as GET /user/repos lists it: one with
\* an odd id has a full name and a creator photo and leaves its URLs to
\* toRepo, one with an even id has the URLs and no full name.
RepositoryOf(id) ==
    [ID |-> id,
     FullName |-> IF id % 2 = 1 THEN <<"o", "/", "r">> \o Itoa(id) ELSE <<>>,
     Name |-> <<"n">> \o Itoa(id),
     Namespace |-> [Path |-> <<"s", "p">>],
     WebURL |-> IF id % 2 = 1 THEN <<>>
                ELSE <<"h", "t", "t", "p", "s", ":", "/", "/", "h">>,
     HTTPURLToRepo |-> IF id % 2 = 1 THEN <<>>
                       ELSE <<"h", "t", "t", "p", "s", ":", "/", "/", "h", "/",
                              "o", "/", "r", ".", "g", "i", "t">>,
     SSHURLToRepo |-> <<>>,
     Private |-> id % 2 = 1,
     Permission |-> [Pull |-> TRUE, Push |-> id % 2 = 1, Admin |-> FALSE],
     Creator |-> [Photo |-> IF id % 2 = 1 THEN <<"/", "a", ".", "p", "n", "g">>
                            ELSE <<>>],
     DefaultBranch |-> <<"m", "a", "i", "n">>]

\* The users of the server: one with a token, one without, one whose token
\* has a control character.
ForgeUsers ==
    {[Login |-> <<"u">>, AccessToken |-> Repeat("a", tokenLogPrefix)],
     [Login |-> <<>>, AccessToken |-> <<>>],
     [Login |-> <<"c">>, AccessToken |-> <<Ctl>>]}

\* Clone URLs: with and without a port, with a port that is no number, with
\* two colons in the host, opaque, and empty.
CloneURLs ==
    {<<"h", "t", "t", "p", "s", ":", "/", "/", "h", "/", "o", "/", "r", ".",
       "g", "i", "t">>,
     <<"h", "t", "t", "p", "s", ":", "/", "/", "h", ":", "8", "/", "o", "/",
       "r", ".", "g", "i", "t">>,
     <<"h", "t", "t", "p", "s", ":", "/", "/", "h", ":", "x", "/", "o", "/",
       "r", ".", "g", "i", "t">>,
     <<"h", "t", "t", "p", "s", ":", "/", "/", "a", ":", "b", ":", "1", "/",
       "r">>,
     <<"h", ":", "r">>,
     <<Ctl>>,
     <<>>}

\* What config.Exchange can return.
ErrExchange == [e |-> "exchange"]

Exchanges ==
    {[err |-> ErrExchange]}
    \cup {[err |-> NoErr,
           token |-> [AccessToken |-> t, RefreshToken |-> <<"r">>, Expiry |-> 9]] :
            t \in {<<"a">>, Repeat("a", tokenLogPrefix)}}

OAuthStates == {<<>>, <<"s", "t">>, <<"&", "=">>}
OAuthCodes == {<<>>, <<"c">>}

\* The answers of the network to one page of GET /user/repos: a failure, or
\* a JSON array of size repositories.
PageShapes ==
    {[fail |-> f] : f \in {"transport", "status", "decode"}}
    \cup {[size |-> k] : k \in 0..MaxBatch}

AnswerOf(shape, page) ==
    IF "size" \in DOMAIN shape
    THEN [kind |-> "http", status |-> 200,
          body |-> [text |-> JSONText,
                    json |-> [val |-> [j \in 1..shape.size |->
                                          RepositoryOf(10 * page + j)]],
                    readErr |-> FALSE]]
    ELSE IF shape.fail = "transport" THEN [kind |-> "transport"]
    ELSE IF shape.fail = "status"
    THEN [kind |-> "http", status |-> 500,
          body |-> [text |-> <<>>, json |-> NoJSON, readErr |-> FALSE]]
    ELSE [kind |-> "http", status |-> 200,
          body |-> [text |-> <<>>, json |-> NoJSON, readErr |-> FALSE]]

\* Webhook payloads.
WebURLs == {<<"h", "t", "t", "p", "s", ":", "/", "/", "h">>, <<":">>, <<>>}

Avatars ==
    {<<>>,
     <<"/", "a", ".", "p", "n", "g">>,
     <<"a", ".", "p", "n", "g">>,
     <<"h", "t", "t", "p", "s", ":", "/", "/", "g", "i", "t", "c", "o", "d",
       "e", ".", "c", "o", "m", "/", "/", "/", "a", "v", "a", "t", "a", "r",
       "s", "/", "1">>}

ProjectOfURL(web) ==
    [ID |-> 7720285, Name |-> <<"r">>, WebURL |-> web, AvatarURL |-> <<>>,
     GitSSHURL |-> <<"g", ":", "r">>,
     GitHTTPURL |-> <<"h", "t", "t", "p", "s", ":", "/", "/", "h", "/", "o",
                      "/", "r", ".", "g", "i", "t">>,
     Namespace |-> <<"o">>, VisibilityLevel |-> 20,
     PathWithNamespace |-> <<"o", "/", "r">>,
     DefaultBranch |-> <<"m", "a", "i", "n">>]

MergeRequestStates ==
    {[Action |-> <<"o", "p", "e", "n">>, State |-> <<"o", "p", "e", "n", "e", "d">>],
     [Action |-> <<"c", "l", "o", "s", "e">>, State |-> <<"o", "p", "e", "n", "e", "d">>],
     [Action |-> <<"u", "p", "d", "a", "t", "e">>, State |-> <<"c", "l", "o", "s", "e", "d">>],
     [Action |-> <<"m", "e", "r", "g", "e">>, State |-> <<"m", "e", "r", "g", "e", "d">>],
     [Action |-> <<"r", "e", "o", "p", "e", "n">>,
      State |-> <<"r", "e", "o", "p", "e", "n", "e", "d">>]}

PullRequestHooks ==
    {[User |-> [Username |-> <<"u">>, Email |-> <<"e">>, AvatarURL |-> a],
      Project |-> ProjectOfURL(w),
      MergeRequest |->
        [IID |-> iid, Title |-> <<"t">>, State |-> st.State,
         Action |-> st.Action,
         TargetBranch |-> <<"m", "a", "i", "n">>,
         SourceBranch |-> <<"d", "e", "v">>,
         URL |-> <<"h", "t", "t", "p", "s", ":", "/", "/", "h", "/", "m", "r",
                   "/", "4">>,
         LastCommit |-> [ID |-> <<"e", "0", "f">>],
         Source |-> [ID |-> s], Target |-> [ID |-> 7720285]]] :
        a \in Avatars, w \in WebURLs, iid \in {4, 12},
        st \in MergeRequestStates, s \in {7720285, 8}}

CommitLists ==
    {<<>>,
     <<[Message |-> <<"m", "1">>,
        URL |-> <<"h", "t", "t", "p", "s", ":", "/", "/", "h", "/", "c", "/", "1">>,
        Added |-> <<<<"a", ".", "g", "o">>>>, Modified |-> <<>>,
        Removed |-> <<>>]>>,
     <<[Message |-> <<"m", "1">>,
        URL |-> <<"h", "t", "t", "p", "s", ":", "/", "/", "h", "/", "c", "/", "1">>,
        Added |-> <<<<"a", ".", "g", "o">>>>, Modified |-> <<>>,
        Removed |-> <<>>],
       [Message |-> <<"m", "2">>, URL |-> <<>>,
        Added |-> <<>>, Modified |-> <<<<"a", ".", "g", "o">>, <<"b">>>>,
        Removed |-> <<<<"b">>>>]>>}

PushRefs ==
    {<<"r", "e", "f", "s", "/", "h", "e", "a", "d", "s", "/", "m", "a", "i", "n">>,
     <<"m", "a", "i", "n">>,
     <<"r", "e", "f", "s", "/", "t", "a", "g", "s", "/", "v", "1">>}

PushHooks ==
    {[Ref |-> ref, After |-> <<"1", "2">>, Message |-> <<"m", "0">>,
      UserAvatar |-> a, UserUsername |-> <<"u">>, UserEmail |-> <<"e">>,
      Project |-> ProjectOfURL(<<"h", "t", "t", "p", "s", ":", "/", "/", "h">>),
      Commits |-> cs] :
        ref \in PushRefs, a \in Avatars, cs \in CommitLists}

ReleaseHooks ==
    {[Repo |-> repo, Sender |-> sender, Release |-> rel] :
        repo \in {Nil, RepositoryOf(1), RepositoryOf(2)},
        sender \in {Nil} \cup UserSamples,
        rel \in {Nil,
                 [TagName |-> <<"v", "1">>, Name |-> <<"n">>, Prerelease |-> TRUE],
                 [TagName |-> <<"r", "/", "1">>, Name |-> <<"n">>,
                  Prerelease |-> FALSE]}}

HookBodies ==
    {[kind |-> "garbage"]}
    \cup {[kind |-> "push", hook |-> h] : h \in PushHooks}
    \cup {[kind |-> "pull_request", hook |-> h] : h \in PullRequestHooks}
    \cup {[kind |-> "release", hook |-> h] : h \in ReleaseHooks}

\* Values of the event-type header: the three known ones, "issues", none.
HookEvents == {hookPush, hookPullRequest, hookRelease, "issues", ""}

\* time.Now().UTC().Unix()
Clock == {1700000000, 1700000001}

----------------------------------------------------------------------------
(* The forge: New, then one call of Login, Auth, Netrc or Repos.  The      *)
(* forge keeps nothing between calls, so a behaviour is one call.          *)

Init ==
    /\ cfg \in Configs
    /\ forge = New(cfg.opts)
    /\ server = NoHooks
    /\ op = "none"
    /\ args = Nil
    /\ ret = Nil
    /\ reqs = <<>>

\* The accounts a login can find: those of UserSamples and one whose id is
\* a JSON number of seven digits.
AccountSamples ==
    UserSamples
    \cup {[ID |-> [num |-> 7720285], Login |-> <<"g">>, Email |-> <<"e">>,
           AvatarURL |-> <<>>]}

LoginCall ==
    /\ op = "none"
    /\ \E state \in OAuthStates, code \in OAuthCodes, exchange \in Exchanges,
          net \in Nets(AccountSamples) :
        /\ op' = "Login"
        /\ args' = [state |-> state, code |-> code, exchange |-> exchange,
                    net |-> net]
        /\ ret' = Login(forge, cfg.OAuthHost, [State |-> state, Code |-> code],
                        exchange, net)
        /\ reqs' = ret'.sent
        /\ UNCHANGED <<cfg, forge, server>>

AuthCall ==
    /\ op = "none"
    /\ \E u \in ForgeUsers, net \in Nets(UserSamples) :
        /\ op' = "Auth"
        /\ args' = [token |-> u.AccessToken, net |-> net]
        /\ ret' = Auth(u.AccessToken, net)
        /\ reqs' = ret'.sent
        /\ UNCHANGED <<cfg, forge, server>>

NetrcCall ==
    /\ op = "none"
    /\ \E u \in {Nil} \cup ForgeUsers, clone \in CloneURLs :
        /\ op' = "Netrc"
        /\ args' = [u |-> u, r |-> [toRepo(RepositoryOf(1)) EXCEPT !.Clone = clone]]
        /\ ret' = Netrc(u, args'.r)
        /\ reqs' = <<>>
        /\ UNCHANGED <<cfg, forge, server>>

\* Repos with the network's answers to the pages it asks for.  Only the
\* runs whose loop ends within MaxPages pages are followed.
ReposCall ==
    /\ op = "none"
    /\ \E u \in ForgeUsers, n \in 1..MaxPages :
        \E shapes \in [1..n -> PageShapes] :
            /\ op' = "Repos"
            /\ args' = [u |-> u,
                        answers |-> [p \in 1..n |-> AnswerOf(shapes[p], p)]]
            /\ ret' = Repos(u, args'.answers)
            /\ ret'.done
            /\ ret'.pages = n
            /\ reqs' = ret'.sent
            /\ UNCHANGED <<cfg, forge, server>>

\* The users whose token is refreshed, and what the token source returns:
\* an error, or a token (the old one when it is still valid, a new one, or
\* one without an access token).
RefreshUsers ==
    {[Login |-> <<"u">>, AccessToken |-> t, RefreshToken |-> <<"r">>, Expiry |-> e] :
        t \in {<<"o", "l", "d">>, <<>>}, e \in {0, 9}}

ErrTokenSource == [e |-> "token source"]

TokenSources ==
    {[err |-> ErrTokenSource]}
    \cup {[err |-> NoErr,
           token |-> [AccessToken |-> t, RefreshToken |-> r, Expiry |-> e]] :
            t \in {<<>>, <<"o", "l", "d">>, <<"n", "e", "w">>},
            r \in {<<"r">>, <<"r", "2">>}, e \in {9, 20}}

RefreshCall ==
    /\ op = "none"
    /\ \E user \in RefreshUsers, source \in TokenSources :
        /\ op' = "Refresh"
        /\ args' = [user |-> user, source |-> source]
        /\ ret' = Refresh(forge, cfg.OAuthHost, user, source)
        /\ reqs' = <<>>
        /\ UNCHANGED <<cfg, forge, server>>

\* The remote ids Repo is asked for: none, "0", ids the list can hold, one
\* it cannot, and one with a leading zero.
RemoteIDs == {<<>>, <<"0">>, <<"2">>, <<"9">>, <<"0", "1">>}

\* The users and the owners Repo is called with, and the answers to a page
\* of the list it searches: an error status, or repositories.
RepoUsers == {u \in ForgeUsers : u.AccessToken # <<>>}

RepoOwners == {<<"a">>, <<"?">>}

ListShapes == {[fail |-> "status"]} \cup {[size |-> k] : k \in 0..MaxBatch}

\* A page of the list Repo searches: repositories 1..size, those of page p
\* on the branch b<p>, so that the lists of two pages hold the same ids.
ListedRepository(id, page) ==
    [RepositoryOf(id) EXCEPT !.DefaultBranch = <<"b">> \o Itoa(page)]

ListAnswerOf(shape, page) ==
    IF "size" \in DOMAIN shape
    THEN [AnswerOf(shape, page) EXCEPT
            !.body.json = [val |-> [j \in 1..shape.size |->
                                      ListedRepository(j, page)]]]
    ELSE AnswerOf(shape, page)

\* Repo by a valid remote id.  Only the runs whose loop ends within
\* MaxPages pages are followed.
RepoByIDCall ==
    /\ op = "none"
    /\ \E u \in RepoUsers, remoteID \in {r \in RemoteIDs : IsValid(r)},
          owner \in RepoOwners, n \in 1..MaxPages :
        \E shapes \in [1..n -> ListShapes] :
            /\ op' = "Repo"
            /\ args' = [u |-> u, remoteID |-> remoteID, owner |-> owner,
                        name |-> <<"r">>,
                        answers |-> [p \in 1..n |-> ListAnswerOf(shapes[p], p)],
                        net |-> Nil]
            /\ ret' = Repo(u, remoteID, owner, <<"r">>, args'.answers, Nil)
            /\ ret'.done
            /\ ret'.pages = n
            /\ reqs' = ret'.sent
            /\ UNCHANGED <<cfg, forge, server>>

\* Repo by owner and name, the remote id not being valid.
RepoByNameCall ==
    /\ op = "none"
    /\ \E u \in RepoUsers, remoteID \in {r \in RemoteIDs : ~IsValid(r)},
          owner \in RepoOwners, net \in Nets({RepositoryOf(1), RepositoryOf(2)}) :
        /\ op' = "Repo"
        /\ args' = [u |-> u, remoteID |-> remoteID, owner |-> owner,
                    name |-> <<"r">>, answers |-> <<>>, net |-> net]
        /\ ret' = Repo(u, remoteID, owner, <<"r">>, <<>>, net)
        /\ reqs' = ret'.sent
        /\ UNCHANGED <<cfg, forge, server>>

Next ==
    \/ LoginCall
    \/ AuthCall
    \/ RefreshCall
    \/ NetrcCall
    \/ ReposCall
    \/ RepoByIDCall
    \/ RepoByNameCall

Spec == Init /\ [][Next]_vars

----------------------------------------------------------------------------
(* The client driven directly: one call of get, post, delete,              *)
(* GetFileContent or GetUser, with every token, endpoint and answer of     *)
(* the network within the bounds.  The client keeps no state between       *)
(* calls, so a behaviour is one call.                                      *)

InitClient ==
    /\ cfg = DefaultConfig
    /\ forge = New(cfg.opts)
    /\ server = NoHooks
    /\ op = "none"
    /\ args = Nil
    /\ ret = Nil
    /\ reqs = <<>>

ClientGet ==
    /\ op = "none"
    /\ \E token \in Tokens, endpoint \in Endpoints, want \in BOOLEAN,
          net \in Nets(UserSamples) :
        /\ op' = "get"
        /\ args' = [token |-> token, endpoint |-> endpoint,
                    body |-> NoBody, net |-> net]
        /\ ret' = get(token, endpoint, want, net)
        /\ reqs' = ret'.sent
        /\ UNCHANGED <<cfg, forge, server>>

ClientPost ==
    /\ op = "none"
    /\ \E token \in Tokens, endpoint \in Endpoints, body \in RequestBodies,
          want \in BOOLEAN, net \in Nets(UserSamples) :
        /\ op' = "post"
        /\ args' = [token |-> token, endpoint |-> endpoint,
                    body |-> body, net |-> net]
        /\ ret' = post(token, endpoint, body, want, net)
        /\ reqs' = ret'.sent
        /\ UNCHANGED <<cfg, forge, server>>

ClientDelete ==
    /\ op = "none"
    /\ \E token \in Tokens, endpoint \in Endpoints, net \in Nets(UserSamples) :
        /\ op' = "delete"
        /\ args' = [token |-> token, endpoint |-> endpoint,
                    body |-> NoBody, net |-> net]
        /\ ret' = delete(token, endpoint, net)
        /\ reqs' = ret'.sent
        /\ UNCHANGED <<cfg, forge, server>>

ClientGetFileContent ==
    /\ op = "none"
    /\ \E token \in Tokens, owner \in Names, ref \in Names,
          net \in Nets(UserSamples) :
        /\ op' = "GetFileContent"
        /\ args' = [token |-> token, owner |-> owner, ref |-> ref,
                    body |-> NoBody, net |-> net]
        /\ ret' = GetFileContent(token, owner, <<"r">>, <<"f">>, ref, net)
        /\ reqs' = ret'.sent
        /\ UNCHANGED <<cfg, forge, server>>

ClientGetUser ==
    /\ op = "none"
    /\ \E token \in Tokens, net \in Nets(UserSamples) :
        /\ op' = "GetUser"
        /\ args' = [token |-> token, net |-> net]
        /\ ret' = GetUser(token, net)
        /\ reqs' = ret'.sent
        /\ UNCHANGED <<cfg, forge, server>>

NextClient ==
    \/ ClientGet
    \/ ClientPost
    \/ ClientDelete
    \/ ClientGetFileContent
    \/ ClientGetUser

SpecClient == InitClient /\ [][NextClient]_vars

----------------------------------------------------------------------------
(* The webhook parsers: one call of parseHook, or of parsePullRequestHook  *)
(* alone, on every event and body.                                         *)

InitHook ==
    /\ cfg = DefaultConfig
    /\ forge = New(cfg.opts)
    /\ server = NoHooks
    /\ op = "none"
    /\ args = Nil
    /\ ret = Nil
    /\ reqs = <<>>

ParseHook ==
    /\ op = "none"
    /\ \E event \in HookEvents, body \in HookBodies, now \in Clock,
          ignored \in {NoErr, ErrIgnoreEvent} :
        /\ op' = "parseHook"
        /\ args' = [event |-> event, body |-> body, now |-> now]
        /\ ret' = parseHook(event, body, now, ignored)
        /\ UNCHANGED <<reqs, cfg, forge, server>>

ParsePullRequestHook ==
    /\ op = "none"
    /\ \E body \in HookBodies :
        /\ op' = "parsePullRequestHook"
        /\ args' = [body |-> body]
        /\ ret' = parsePullRequestHook(body)
        /\ UNCHANGED <<reqs, cfg, forge, server>>

HookCall ==
    /\ op = "none"
    /\ \E event \in HookEvents, body \in HookBodies, now \in Clock,
          ignored \in {NoErr, ErrIgnoreEvent} :
        /\ op' = "Hook"
        /\ args' = [event |-> event, body |-> body, now |-> now,
                    ignored |-> ignored]
        /\ ret' = Hook(event, body, now, ignored)
        /\ UNCHANGED <<reqs, cfg, forge, server>>

NextHook ==
    \/ ParseHook
    \/ ParsePullRequestHook
    \/ HookCall

SpecHook == InitHook /\ [][NextHook]_vars

----------------------------------------------------------------------------
(* Properties of the forge, checked under Spec.                            *)

\* The values of the parameter named k in the query of url, in order.
ParamValues(url, k) ==
    LET q == QueryParams(url)
    IN  [i \in 1..Cardinality({j \in 1..Len(q) : q[j][1] = k}) |->
            q[CHOOSE j \in 1..Len(q) :
                /\ q[j][1] = k
                /\ Cardinality({l \in 1..j : q[l][1] = k}) = i][2]]

\* C1: Login with an empty code returns no user, no error and the
\* authorization URL (the authorize endpoint of gitcode.com with the
\* request's state as its state parameter), and makes neither a token
\* exchange nor an API request; an exchange or a request is made only when
\* the code is not empty.
C1_LoginWithoutCode ==
    op = "Login" =>
        /\ args.code = <<>> =>
            /\ ~ret.panicked
            /\ ret.user = Nil
            /\ ret.err = NoErr
            /\ reqs = <<>>
            /\ HasPrefix(ret.redirect,
                         Concat(<<defaultURL,
                                  <<"/", "o", "a", "u", "t", "h", "/", "a", "u",
                                    "t", "h", "o", "r", "i", "z", "e", "?">>>>))
            /\ ParamValues(ret.redirect, <<"s", "t", "a", "t", "e">>)
                 = IF args.state = <<>> THEN <<>>
                   ELSE <<QueryEscape(args.state)>>
        /\ reqs # <<>> => args.code # <<>>

\* C1's case: a login without a code and with a state that needs escaping.
C1_Witness ==
    /\ op = "Login"
    /\ args.code = <<>>
    /\ args.state = <<"&", "=">>
    /\ ret.user = Nil
    /\ ParamValues(ret.redirect, <<"s", "t", "a", "t", "e">>)
         = <<<<"%", "2", "6", "%", "3", "D">>>>

\* C6: Netrc returns the user's login and access token (both empty for a
\* nil user), the host of the clone URL as the machine and the GitCode
\* forge type; when the host cannot be extracted from the clone URL it
\* returns no record and the error.
C6_Netrc ==
    op = "Netrc" =>
        IF ExtractHostFromCloneURL(args.r.Clone).err = NoErr
        THEN /\ ret.err = NoErr
             /\ ret.netrc # Nil
             /\ ret.netrc.Login = (IF args.u = Nil THEN <<>> ELSE args.u.Login)
             /\ ret.netrc.Password
                  = (IF args.u = Nil THEN <<>> ELSE args.u.AccessToken)
             /\ ret.netrc.Machine
                  = SubSeq(ParseURL(args.r.Clone).host, 1,
                           Len(ExtractHostFromCloneURL(args.r.Clone).host))
             /\ \A i \in 1..Len(ret.netrc.Machine) : ret.netrc.Machine[i] # ":"
             /\ ret.netrc.Type = "gitcode"
        ELSE /\ ret.netrc = Nil
             /\ ret.err = ExtractHostFromCloneURL(args.r.Clone).err

\* C6's case: a user and a clone URL with a port.
C6_Witness ==
    /\ op = "Netrc"
    /\ args.u # Nil
    /\ args.u.Login = <<"u">>
    /\ args.r.Clone = <<"h", "t", "t", "p", "s", ":", "/", "/", "h", ":", "8",
                        "/", "o", "/", "r", ".", "g", "i", "t">>
    /\ ret.netrc # Nil
    /\ ret.netrc.Machine = <<"h">>
    /\ ret.netrc.Login = <<"u">>

\* C7: the forge New returns keeps the configuration it was given: its url
\* is the URL of the options, its OAuth client id and secret are those of
\* the options; Name() is "gitcode" and URL() is "https://gitcode.com".
C7_NewKeepsConfiguration ==
    /\ "URL" \in DOMAIN cfg.opts
    /\ "url" \in DOMAIN forge
    /\ forge.url = cfg.opts.URL
    /\ forge.oAuthClientID = cfg.opts.OAuthClientID
    /\ forge.oAuthClientSecret = cfg.opts.OAuthClientSecret
    /\ Name(forge) = <<"g", "i", "t", "c", "o", "d", "e">>
    /\ URL(forge) = <<"h", "t", "t", "p", "s", ":", "/", "/", "g", "i", "t",
                      "c", "o", "d", "e", ".", "c", "o", "m">>

\* The repositories received over the pages of a Repos call.
Received ==
    Concat([p \in 1..Len(args.answers) |-> args.answers[p].body.json.val])

\* C8: Repos requests the pages 1, 2, 3, ... of GET /user/repos in this
\* order, each with a page size of 50; on success it returns one converted
\* repository per repository received over all pages, in the order
\* received; when the request of a page fails it returns no repositories
\* and that error.
C8_ReposPagination ==
    op = "Repos" =>
        /\ \A i \in 1..Len(reqs) :
            /\ reqs[i].method = <<"G", "E", "T">>
            /\ HasPrefix(reqs[i].url,
                         Concat(<<defaultAPI,
                                  <<"/", "u", "s", "e", "r", "/", "r", "e", "p",
                                    "o", "s", "?">>>>))
            /\ ParamValues(reqs[i].url, <<"p", "a", "g", "e">>) = <<Itoa(i)>>
            /\ ParamValues(reqs[i].url, <<"p", "e", "r", "_", "p", "a", "g", "e">>)
                 = <<<<"5", "0">>>>
        /\ IF ret.err = NoErr
           THEN /\ Len(reqs) = Len(args.answers)
                /\ Len(ret.repos) = Len(Received)
                /\ \A i \in 1..Len(Received) : ret.repos[i] = toRepo(Received[i])
           ELSE /\ ret.repos = <<>>
                /\ ret.err = GetUserRepos(args.u.AccessToken, Len(args.answers),
                                          defaultPageSize,
                                          args.answers[Len(args.answers)]).err

\* C8's case: three pages fetched, repositories of every page returned.
C8_Witness ==
    /\ op = "Repos"
    /\ ret.err = NoErr
    /\ Len(reqs) = 3
    /\ Len(ret.repos) >= 3
    /\ ret.repos[1].ForgeRemoteID = <<"1", "1">>
    /\ ret.repos[Len(ret.repos)].ForgeRemoteID[1] = "3"

----------------------------------------------------------------------------
(* Properties of the client, checked under SpecClient.                     *)

ClientCalls == {"get", "post", "delete", "GetFileContent"}

\* C2: GetUser on a client with any token, the empty one included,
\* completes normally: it returns a user or an error and never aborts.
C2_GetUserCompletes ==
    op = "GetUser" => ~ret.panicked

\* The positions of the access_token parameters in a request URL's query.
AccessTokenParams(url) ==
    {j \in 1..Len(QueryParams(url)) : QueryParams(url)[j][1] = accessTokenParam}

\* C9: every request built by makeRequest carries exactly one access_token
\* query parameter, equal to the client's token, when the token is not
\* empty, and none when it is empty.
C9_TokenIsTheAccessTokenParam ==
    op \in ClientCalls =>
        \A i \in 1..Len(reqs) :
            IF args.token # <<>>
            THEN /\ Cardinality(AccessTokenParams(reqs[i].url)) = 1
                 /\ \A j \in AccessTokenParams(reqs[i].url) :
                        QueryParams(reqs[i].url)[j][2] = args.token
            ELSE AccessTokenParams(reqs[i].url) = {}

\* What C10 says of the answer to a request that was sent: a transport
\* failure is the error, a status of 400 or more is an API error with the
\* status and the body and leaves the result unset, and a result is set
\* only by a response with a status below 400.
AnswerPropagated ==
    /\ (Len(reqs) >= 1 /\ args.net.kind = "transport") =>
            (ret.err = ErrTransport /\ ret.result = Unset)
    /\ (Len(reqs) >= 1 /\ args.net.kind = "http" /\ args.net.status >= 400) =>
            /\ ret.err = ErrAPI(args.net.status, args.net.body.text)
            /\ ret.result = Unset
    /\ ret.result # Unset =>
            /\ Len(reqs) >= 1
            /\ args.net.kind = "http"
            /\ args.net.status < 400

\* C10 as stated: each client call (get, post, delete, GetFileContent)
\* sends exactly one HTTP request and never retries, and propagates the
\* answer as AnswerPropagated says.
C10_ExactlyOneRequest ==
    op \in ClientCalls => (Len(reqs) = 1 /\ AnswerPropagated)

\* C10 as amended: each client call sends at most one HTTP request and never
\* retries; it sends none exactly when the request could not be built (the
\* body does not marshal or the URL does not parse), and then returns that
\* error; the answer to a request that was sent is propagated as
\* AnswerPropagated says.
C10_AtMostOneRequest ==
    op \in ClientCalls =>
        /\ Len(reqs) <= 1
        /\ Len(reqs) = 0 <=> ret.err \in {ErrMarshal, ErrCreateRequest}
        /\ AnswerPropagated

\* C10's case: a call whose one request was answered with an error status.
C10_Witness ==
    /\ op = "post"
    /\ Len(reqs) = 1
    /\ args.net.kind = "http"
    /\ args.net.status >= 400
    /\ ret.err.e = "API error"

----------------------------------------------------------------------------
(* Properties of the webhook parsers, checked under SpecHook.              *)

\* C3: parseHook on an event that is not push, pull request or release
\* returns a nil repository and a nil pipeline, whatever the body is.
C3_UnsupportedEvent ==
    (op = "parseHook" /\ args.event \notin {hookPush, hookPullRequest, hookRelease})
        => (~ret.panicked /\ ret.repo = Nil /\ ret.pipeline = Nil)

\* C3's case: the event "issues" with the body of a push.
C3_Witness ==
    /\ op = "parseHook"
    /\ args.event = "issues"
    /\ args.body.kind = "push"
    /\ ret.repo = Nil
    /\ ret.pipeline = Nil

HookOfCall == parsePullRequest(args.body).val

\* C5: parsePullRequestHook on a decodable merge-request payload returns no
\* error, and a repository and a pipeline with the fields of the payload:
\* the repository's remote id is the decimal project id, its owner the
\* namespace, its name, full name, forge URL, clone URLs and branch those
\* of the project; the pipeline's title and message are the merge request's
\* title, its author and sender the user's name, its email the user's, its
\* commit the last commit's id, its ref "refs/pull/<iid>/head", its branch
\* the target branch, its refspec "<source>:<target>", its forge URL the
\* merge request's URL.
C5_PullRequestFields ==
    (op = "parsePullRequestHook" /\ args.body.kind = "pull_request") =>
        /\ ~ret.panicked
        /\ ret.err = NoErr
        /\ ret.repo # Nil
        /\ ret.pipeline # Nil
        /\ ret.repo.ForgeRemoteID = Itoa(HookOfCall.Project.ID)
        /\ ret.repo.Owner = HookOfCall.Project.Namespace
        /\ ret.repo.Name = HookOfCall.Project.Name
        /\ ret.repo.FullName = HookOfCall.Project.PathWithNamespace
        /\ ret.repo.ForgeURL = HookOfCall.Project.WebURL
        /\ ret.repo.Clone = HookOfCall.Project.GitHTTPURL
        /\ ret.repo.CloneSSH = HookOfCall.Project.GitSSHURL
        /\ ret.repo.Branch = HookOfCall.Project.DefaultBranch
        /\ ret.pipeline.Title = HookOfCall.MergeRequest.Title
        /\ ret.pipeline.Message = HookOfCall.MergeRequest.Title
        /\ ret.pipeline.Author = HookOfCall.User.Username
        /\ ret.pipeline.Sender = HookOfCall.User.Username
        /\ ret.pipeline.Email = HookOfCall.User.Email
        /\ ret.pipeline.Commit = HookOfCall.MergeRequest.LastCommit.ID
        /\ ret.pipeline.Ref
             = Concat(<<<<"r", "e", "f", "s", "/", "p", "u", "l", "l", "/">>,
                        Itoa(HookOfCall.MergeRequest.IID),
                        <<"/", "h", "e", "a", "d">>>>)
        /\ ret.pipeline.Branch = HookOfCall.MergeRequest.TargetBranch
        /\ ret.pipeline.Refspec
             = Concat(<<HookOfCall.MergeRequest.SourceBranch, <<":">>,
                        HookOfCall.MergeRequest.TargetBranch>>)
        /\ ret.pipeline.ForgeURL = HookOfCall.MergeRequest.URL

----------------------------------------------------------------------------
(* The converters driven directly: one call of fixMalformedAvatar,         *)
(* expandAvatar or pipelineFromPush on every input within the bounds.      *)

\* Avatar URLs: the pieces that matter to fixMalformedAvatar, put together
\* in every order, and the URLs of TestFixMalformedAvatar.
AvatarPieces ==
    {<<"/">>,
     <<"a">>,
     <<"/", "a", "v", "a", "t", "a", "r", "s", "/">>,
     <<"/", "/", "a", "v", "a", "t", "a", "r", "s", "/">>}

AvatarURLs ==
    UNION {{Concat(ps) : ps \in [1..n -> AvatarPieces]} : n \in 0..MaxPieces}
    \cup {Concat(<<defaultURL, tail>>) :
            tail \in {<<"/", "/", "/", "a", "v", "a", "t", "a", "r", "s", "/", "1">>,
                      <<"/", "/", "a", "v", "a", "t", "a", "r", "s", "/", "1">>,
                      <<"/", "a", "v", "a", "t", "a", "r", "s", "/", "1">>}}

InitConv ==
    /\ cfg = DefaultConfig
    /\ forge = New(cfg.opts)
    /\ server = NoHooks
    /\ op = "none"
    /\ args = Nil
    /\ ret = Nil
    /\ reqs = <<>>

FixMalformedAvatarCall ==
    /\ op = "none"
    /\ \E url \in AvatarURLs :
        /\ op' = "fixMalformedAvatar"
        /\ args' = [url |-> url]
        /\ ret' = [val |-> fixMalformedAvatar(url)]
        /\ UNCHANGED <<reqs, cfg, forge, server>>

\* Base URLs of expandAvatar: the repository URL of TestExpandAvatar, a
\* bare host, one with a query, an opaque one, ones that do not parse, none.
AvatarBases ==
    {Concat(<<defaultURL, <<"/", "u", "s", "e", "r", "/", "r", "e", "p", "o">>>>),
     <<"h", "t", "t", "p", "s", ":", "/", "/", "h">>,
     <<"h", "t", "t", "p", "s", ":", "/", "/", "h", "/", "x", "?", "q">>,
     <<"h", ":", "r">>,
     <<":">>,
     <<Ctl>>,
     <<>>}

RelativeAvatars ==
    Avatars
    \cup {<<"/", "a", "v", "a", "t", "a", "r", "s", "/", "1">>,
          <<"/", "/", "c", "/", "a">>,
          <<"h", "t", "t", "p">>,
          <<"/">>}

ExpandAvatarCall ==
    /\ op = "none"
    /\ \E base \in AvatarBases, avatar \in RelativeAvatars \cup AvatarURLs :
        /\ op' = "expandAvatar"
        /\ args' = [base |-> base, avatar |-> avatar]
        /\ ret' = IF expandAvatar(base, avatar) = Crash
                  THEN [panicked |-> TRUE, val |-> <<>>]
                  ELSE [panicked |-> FALSE, val |-> expandAvatar(base, avatar).val]
        /\ UNCHANGED <<reqs, cfg, forge, server>>

PipelineFromPushCall ==
    /\ op = "none"
    /\ \E hook \in PushHooks, now \in Clock :
        /\ op' = "pipelineFromPush"
        /\ args' = [hook |-> hook, now |-> now]
        /\ ret' = pipelineFromPush(hook, now)
        /\ UNCHANGED <<reqs, cfg, forge, server>>

\* The file lists of a commit: none, one file, two files, one file twice.
FileLists == {<<>>, <<<<"a">>>>, <<<<"b">>>>, <<<<"b">>, <<"a">>>>,
              <<<<"a">>, <<"a">>>>}

FileCommits ==
    {[Added |-> a, Modified |-> m, Removed |-> r] :
        a \in FileLists, m \in FileLists, r \in FileLists}

\* Pushes of no commit, of one and of two.
FilePushes ==
    {[Commits |-> <<>>]}
    \cup {[Commits |-> <<c>>] : c \in FileCommits}
    \cup {[Commits |-> <<c, d>>] : c \in FileCommits, d \in FileCommits}

GetChangedFilesCall ==
    /\ op = "none"
    /\ \E hook \in FilePushes :
        /\ op' = "getChangedFilesFromPushHook"
        /\ args' = [hook |-> hook]
        /\ ret' = [files |-> getChangedFilesFromPushHook(hook)]
        /\ UNCHANGED <<reqs, cfg, forge, server>>

\* Full names: none, owner and name, a name in a subgroup, a single
\* segment, an empty first segment.
FullNames == {<<>>, <<"o", "/", "r">>, <<"a", "/", "b", "/", "c">>, <<"x">>,
              <<"/", "b">>}

\* Repositories as the API describes them, with and without each field
\* toRepo falls back from.
Repositories ==
    {[RepositoryOf(2) EXCEPT !.FullName = fn, !.Name = n, !.Namespace = [Path |-> ns],
                             !.WebURL = urls[1], !.HTTPURLToRepo = urls[2],
                             !.SSHURLToRepo = urls[3]] :
        fn \in FullNames, n \in {<<>>, <<"n">>}, ns \in {<<>>, <<"s", "p">>},
        urls \in {<<<<>>, <<>>, <<>>>>,
                  <<<<"h", "t", "t", "p", "s", ":", "/", "/", "h">>,
                    <<"h", "t", "t", "p", "s", ":", "/", "/", "h", ".", "g", "i", "t">>,
                    <<"g", "i", "t", "@", "h">>>>}}

ToRepoCall ==
    /\ op = "none"
    /\ \E from \in Repositories :
        /\ op' = "toRepo"
        /\ args' = [from |-> from]
        /\ ret' = toRepo(from)
        /\ UNCHANGED <<reqs, cfg, forge, server>>

NextConv ==
    \/ FixMalformedAvatarCall
    \/ ExpandAvatarCall
    \/ PipelineFromPushCall
    \/ GetChangedFilesCall
    \/ ToRepoCall

SpecConv == InitConv /\ [][NextConv]_vars

----------------------------------------------------------------------------
(* Properties of the converters, checked under SpecConv.                   *)

TripleSlash == <<"/", "/", "/">>
DoubleSlashAvatars == <<"/", "/", "a", "v", "a", "t", "a", "r", "s", "/">>

\* The positions at which sub occurs in s.
Occurrences(s, sub) ==
    {i \in 1..(Len(s) - Len(sub) + 1) : SubSeq(s, i, i + Len(sub) - 1) = sub}

\* s without the characters at the positions in D.
RECURSIVE Without(_, _, _)
Without(s, D, i) ==
    IF i > Len(s) THEN <<>>
    ELSE (IF i \in D THEN <<>> ELSE <<s[i]>>) \o Without(s, D, i + 1)

\* C11: fixMalformedAvatar cuts a URL with a "///" so that it starts at the
\* second slash of the first "///"; in a URL without "///" it replaces every
\* "//avatars/" (from the left, occurrences that do not overlap a replaced
\* one) by "/avatars/", that is, drops the first slash of each; any other
\* URL is returned unchanged.
C11_FixMalformedAvatar ==
    op = "fixMalformedAvatar" =>
        LET url == args.url
            triple == Occurrences(url, TripleSlash)
            avatars == Occurrences(url, DoubleSlashAvatars)
        IN  IF triple # {}
            THEN \E i \in triple :
                    /\ \A j \in triple : i <= j
                    /\ ret.val = SubSeq(url, i + 1, Len(url))
            ELSE IF avatars # {}
            THEN \E D \in SUBSET avatars :
                    /\ \A i \in avatars :
                        i \in D <=> (i - Len(DoubleSlashAvatars) + 1) \notin D
                    /\ ret.val = Without(url, D, 1)
            ELSE ret.val = url

\* C11's cases: the URL of the test with "///", and a URL with two
\* "//avatars/" and no "///".
C11_Witness ==
    /\ op = "fixMalformedAvatar"
    /\ \/ /\ args.url = Concat(<<defaultURL, <<"/", "/", "/", "a", "v", "a", "t",
                                               "a", "r", "s", "/", "1">>>>)
          /\ ret.val = <<"/", "/", "a", "v", "a", "t", "a", "r", "s", "/", "1">>
       \/ /\ args.url = Concat(<<DoubleSlashAvatars, <<"a">>, DoubleSlashAvatars>>)
          /\ ret.val = <<"/", "a", "v", "a", "t", "a", "r", "s", "/", "a",
                         "/", "a", "v", "a", "t", "a", "r", "s", "/">>

\* C12: expandAvatar never aborts; an empty avatar gives the empty string,
\* an avatar that starts with "http" is returned unchanged, and an avatar
\* that starts with a single "/" gives the URL with the scheme and the host
\* of the base and the avatar as its whole path.
C12_ExpandAvatar ==
    op = "expandAvatar" =>
        /\ ~ret.panicked
        /\ args.avatar = <<>> => ret.val = <<>>
        /\ HasPrefix(args.avatar, <<"h", "t", "t", "p">>) => ret.val = args.avatar
        /\ (HasPrefix(args.avatar, <<"/">>) /\ ~HasPrefix(args.avatar, <<"/", "/">>)) =>
            /\ URLParses(ret.val)
            /\ ParseURL(ret.val).scheme = ParseURL(args.base).scheme
            /\ ParseURL(ret.val).host = ParseURL(args.base).host
            /\ ParseURL(ret.val).path = args.avatar

RefsHeads == <<"r", "e", "f", "s", "/", "h", "e", "a", "d", "s", "/">>

\* C14: pipelineFromPush gives a pipeline with the event push, the commit
\* of the payload's "after", the payload's ref unchanged and as branch the
\* ref without a leading "refs/heads/" (the ref itself when it has no such
\* prefix); the message and the link are those of the first commit when the
\* payload lists commits, else the payload's message and the project's web
\* URL.
C14_PipelineFromPush ==
    op = "pipelineFromPush" =>
        /\ ret.Event = "push"
        /\ ret.Commit = args.hook.After
        /\ ret.Ref = args.hook.Ref
        /\ IF HasPrefix(args.hook.Ref, RefsHeads)
           THEN RefsHeads \o ret.Branch = args.hook.Ref
           ELSE ret.Branch = args.hook.Ref
        /\ IF Len(args.hook.Commits) >= 1
           THEN /\ ret.Message = args.hook.Commits[1].Message
                /\ ret.ForgeURL = args.hook.Commits[1].URL
           ELSE /\ ret.Message = args.hook.Message
                /\ ret.ForgeURL = args.hook.Project.WebURL

\* C14's case: a push to refs/heads/main with two commits.
C14_Witness ==
    /\ op = "pipelineFromPush"
    /\ args.hook.Ref = RefsHeads \o <<"m", "a", "i", "n">>
    /\ Len(args.hook.Commits) = 2
    /\ ret.Branch = <<"m", "a", "i", "n">>
    /\ ret.Message = <<"m", "1">>
    /\ ret.Event = "push"

----------------------------------------------------------------------------
(* The file operations: one call of File on every user, repository,        *)
(* pipeline and answer of the network within the bounds.                   *)

\* The pipeline's commit: none, a SHA, a SHA with "404" in it.
PipelineCommits == {<<>>, <<"c", "1">>, <<"4", "0", "4">>}

\* The repository's default branch: none, or one with a slash.
RepoBranches == {<<>>, <<"d", "/", "x">>}

\* The file asked for.
ConfigFiles == {<<"w">>, <<"a", "/", "w">>}

FileRepo(branch) == [Owner |-> <<"o">>, Name |-> <<"r">>, Branch |-> branch]

InitFiles ==
    /\ cfg = DefaultConfig
    /\ forge = New(cfg.opts)
    /\ server = NoHooks
    /\ op = "none"
    /\ args = Nil
    /\ ret = Nil
    /\ reqs = <<>>

FileCall ==
    /\ op = "none"
    /\ \E u \in ForgeUsers, branch \in RepoBranches, commit \in PipelineCommits,
          f \in ConfigFiles, net \in Nets({Nil}) :
        /\ op' = "File"
        /\ args' = [u |-> u, r |-> FileRepo(branch), b |-> [Commit |-> commit],
                    f |-> f, net |-> net]
        /\ ret' = File(u, FileRepo(branch), [Commit |-> commit], f, net)
        /\ reqs' = ret'.sent
        /\ UNCHANGED <<cfg, forge, server>>

\* A response 200 whose body decodes to v.
OkAnswer(v) ==
    [kind |-> "http", status |-> 200,
     body |-> [text |-> JSONText, json |-> [val |-> v], readErr |-> FALSE]]

\* A decoded Branch with the id of its head commit.
BranchOf(sha) == [Name |-> <<"d">>, Commit |-> [ID |-> sha]]

\* A decoded Tree.
TreeOf(entries) == [Tree |-> entries]

blob == <<"b", "l", "o", "b">>

\* The entries a tree is made of: a file in the root, a file in a, a file
\* in a/b, a file in the sibling ab, and the directory a itself.
TreeEntries ==
    {[Type |-> blob, Path |-> <<"w">>],
     [Type |-> blob, Path |-> <<"a", "/", "w">>],
     [Type |-> blob, Path |-> <<"a", "/", "b", "/", "w">>],
     [Type |-> blob, Path |-> <<"a", "b", "/", "w">>],
     [Type |-> <<"t", "r", "e", "e">>, Path |-> <<"a">>]}

Trees == UNION {[1..n -> TreeEntries] : n \in 0..MaxEntries}

\* The directories asked for: the root twice, a with and without slashes,
\* and a/b.
Dirs == {<<>>, <<"/">>, <<"a">>, <<"/", "a", "/">>, <<"a", "/", "b">>}

\* What the network answers when the content of the i-th entry is asked
\* for: the content, or a 404.
ContentFound(i) ==
    [kind |-> "http", status |-> 200,
     body |-> [text |-> <<"y">> \o Itoa(i), json |-> NoJSON, readErr |-> FALSE]]

ContentNotFound ==
    [kind |-> "http", status |-> 404,
     body |-> [text |-> <<>>, json |-> NoJSON, readErr |-> FALSE]]

ContentNetsOf(tree) ==
    {nets \in [1..Len(tree) -> {ContentFound(i) : i \in 1..Len(tree)}
                                  \cup {ContentNotFound}] :
        \A i \in 1..Len(tree) : nets[i] \in {ContentFound(i), ContentNotFound}}

\* The pipeline's commit and the repository's branch of a Dir call.
DirRefs ==
    {[Commit |-> <<"c", "1">>, Branch |-> <<"d">>],
     [Commit |-> <<>>, Branch |-> <<"d">>],
     [Commit |-> <<>>, Branch |-> <<>>]}

headSHA == <<"s", "1">>

sampleTree ==
    <<[Type |-> blob, Path |-> <<"a", "/", "w">>], [Type |-> blob, Path |-> <<"w">>]>>

\* The inputs of Dir: every directory on every tree with every answer to
\* the content requests, the lookups succeeding; and every answer to the
\* branch request and to the tree request, for one directory and one tree.
DirInputs ==
    {[u |-> CHOOSE u \in RepoUsers : ~Contains(u.AccessToken, <<Ctl>>),
      r |-> FileRepo(ref.Branch), b |-> [Commit |-> ref.Commit], f |-> f,
      branchNet |-> OkAnswer(BranchOf(headSHA)),
      treeNet |-> OkAnswer(TreeOf(tn[1])), contentNets |-> tn[2]] :
        ref \in DirRefs, f \in Dirs,
        tn \in UNION {{<<t, n>> : n \in ContentNetsOf(t)} : t \in Trees}}
    \cup
    {[u |-> u, r |-> FileRepo(ref.Branch), b |-> [Commit |-> ref.Commit],
      f |-> <<"a">>,
      branchNet |-> bt[1], treeNet |-> bt[2],
      contentNets |-> <<ContentFound(1), ContentFound(2)>>] :
        u \in RepoUsers, ref \in DirRefs,
        bt \in ({<<bn, OkAnswer(TreeOf(sampleTree))>> :
                    bn \in Nets({BranchOf(headSHA), BranchOf(<<>>)})}
                \cup
                {<<OkAnswer(BranchOf(headSHA)), tn>> :
                    tn \in Nets({TreeOf(sampleTree), TreeOf(<<>>)})})}

DirCall ==
    /\ op = "none"
    /\ \E in \in DirInputs :
        /\ op' = "Dir"
        /\ args' = in
        /\ ret' = Dir(in.u, in.r, in.b, in.f, in.branchNet, in.treeNet,
                      in.contentNets)
        /\ reqs' = ret'.sent
        /\ UNCHANGED <<cfg, forge, server>>

\* The pull requests of the repository as the API lists them.
PullRequestLists ==
    {<<>>, <<[Number |-> 4, Title |-> <<"t">>], [Number |-> 12, Title |-> <<>>]>>}

\* The list options of a call: the page asked for.
ListOptions == {[Page |-> n, PerPage |-> defaultPageSize] : n \in 1..MaxPages}

PullRequestsCall ==
    /\ op = "none"
    /\ \E u \in ForgeUsers, p \in ListOptions, net \in Nets(PullRequestLists) :
        /\ op' = "PullRequests"
        /\ args' = [u |-> u, r |-> FileRepo(<<>>), p |-> p, net |-> net]
        /\ ret' = PullRequests(u, FileRepo(<<>>), p, net)
        /\ reqs' = ret'.sent
        /\ UNCHANGED <<cfg, forge, server>>

\* The branches a repository has: none, one, two.
BranchLists ==
    {<<>>, <<[Name |-> <<"m">>]>>, <<[Name |-> <<"m">>], [Name |-> <<"d">>]>>}

BranchesCall ==
    /\ op = "none"
    /\ \E u \in ForgeUsers, p \in ListOptions, net \in Nets(BranchLists) :
        /\ op' = "Branches"
        /\ args' = [u |-> u, r |-> FileRepo(<<>>), p |-> p, net |-> net]
        /\ ret' = Branches(u, FileRepo(<<>>), p, net)
        /\ reqs' = ret'.sent
        /\ UNCHANGED <<cfg, forge, server>>

\* The page a request URL names in its query, the first when it names none.
NamesPage(url, n) ==
    \/ Contains(url, <<"?", "p", "a", "g", "e", "=">> \o Itoa(n))
    \/ Contains(url, <<"&", "p", "a", "g", "e", "=">> \o Itoa(n))

PageNamed(url) ==
    IF \E n \in 1..MaxPages : NamesPage(url, n)
    THEN CHOOSE n \in 1..MaxPages : NamesPage(url, n)
    ELSE 1

\* What the service answers to the requests of one call when the repository
\* holds items, fewer than a page of them: the items for the first page,
\* an empty list for any later one.
ServiceAnswer(items, sent) ==
    IF sent = <<>> THEN [kind |-> "transport"]
    ELSE OkAnswer(IF PageNamed(sent[1].url) = 1 THEN items ELSE <<>>)

\* A page-increment loop over Branches or PullRequests hands Paginate a
\* closure; this is the sequence of what it gives for pages 1, 2, ... when
\* the service answers each request from items.
RECURSIVE ListPagesFrom(_, _, _, _, _)
ListPagesFrom(list(_, _, _, _), u, r, items, page) ==
    IF page > MaxPages THEN <<>>
    ELSE <<Apply(LAMBDA p :
                   Apply(LAMBDA l : [sent |-> l.sent, err |-> l.err,
                                     batch |-> IF l.err # NoErr THEN <<>> ELSE l.list],
                         list(u, r, p,
                              ServiceAnswer(items,
                                            list(u, r, p, [kind |-> "transport"]).sent))),
                 [Page |-> page, PerPage |-> defaultPageSize])>>
         \o ListPagesFrom(list, u, r, items, page + 1)

\* The loop over Branches, or over PullRequests, pages 1 to MaxPages.
ListPages(kind, u, r, items) ==
    IF kind = "Branches" THEN ListPagesFrom(Branches, u, r, items, 1)
    ELSE ListPagesFrom(PullRequests, u, r, items, 1)

PagesCall ==
    /\ op = "none"
    /\ \E u \in ForgeUsers, kind \in {"Branches", "PullRequests"} :
       \E items \in IF kind = "Branches" THEN BranchLists ELSE PullRequestLists :
        /\ op' = "Pages"
        /\ args' = [u |-> u, r |-> FileRepo(<<>>), kind |-> kind, items |-> items]
        /\ ret' = Paginate(ListPages(kind, u, FileRepo(<<>>), items))
        /\ reqs' = SentBy(ListPages(kind, u, FileRepo(<<>>), items), ret'.pages)
        /\ UNCHANGED <<cfg, forge, server>>

NextFiles ==
    \/ FileCall
    \/ DirCall
    \/ PullRequestsCall
    \/ BranchesCall
    \/ PagesCall

SpecFiles == InitFiles /\ [][NextFiles]_vars

----------------------------------------------------------------------------
(* Properties of the file operations, checked under SpecFiles.             *)

\* The ref a File or Dir call reads from, by the priority C18 states.
RefOfCall ==
    IF args.b.Commit # <<>> THEN args.b.Commit
    ELSE IF args.r.Branch # <<>> THEN args.r.Branch
    ELSE <<"m", "a", "i", "n">>

\* A request for the content of path at the ref of the call.
IsContentRequest(req, path) ==
    /\ req.method = <<"G", "E", "T">>
    /\ HasPrefix(req.url,
                 Concat(<<defaultAPI, <<"/", "r", "e", "p", "o", "s", "/">>, args.r.Owner, <<"/">>,
                          args.r.Name, <<"/", "r", "a", "w", "/">>, path, <<"?">>>>))
    /\ ParamValues(req.url, <<"r", "e", "f">>) = <<QueryEscape(RefOfCall)>>

\* What C18 says of the answer: the body of a response below 400 is
\* returned, and a response 404 gives the API error joined with the
\* config-not-found error that names the file.
FileAnswer ==
    /\ (Len(reqs) = 1 /\ args.net.kind = "http" /\ args.net.status < 400
            /\ ~args.net.body.readErr) =>
            (ret.err = NoErr /\ ret.data = args.net.body.text)
    /\ (Len(reqs) = 1 /\ args.net.kind = "http" /\ args.net.status = 404) =>
            /\ ret.data = Nil
            /\ ret.err = Join(ErrAPI(404, args.net.body.text),
                              ErrConfigNotFound(args.f))

\* C18 as stated: File issues one file-content request, for the pipeline's
\* commit when it has one, else for the repository's branch when it has
\* one, else for "main", and answers as FileAnswer says.
C18_FileOneRequest ==
    op = "File" =>
        /\ Len(reqs) = 1
        /\ IsContentRequest(reqs[1], args.f)
        /\ FileAnswer

\* C18 as amended: File issues at most one file-content request, for the
\* pipeline's commit when it has one, else for the repository's branch when
\* it has one, else for "main"; it issues none exactly when the request
\* cannot be built, and then returns an error and no content; it answers
\* as FileAnswer says.
C18_FileAtMostOneRequest ==
    op = "File" =>
        /\ Len(reqs) <= 1
        /\ \A i \in 1..Len(reqs) : IsContentRequest(reqs[i], args.f)
        /\ Len(reqs) = 0 <=>
                ~URLParses(requestURL(args.u.AccessToken,
                                      fileContentEndpoint(args.r.Owner, args.r.Name,
                                                          args.f, RefOfCall)))
        /\ Len(reqs) = 0 => (ret.data = Nil /\ ret.err # NoErr)
        /\ FileAnswer

\* C18's cases: no commit and a branch, the file read from the branch; and
\* no commit and no branch, a 404 for "main".
C18_Witness ==
    /\ op = "File"
    /\ args.b.Commit = <<>>
    /\ Len(reqs) = 1
    /\ args.net.kind = "http"
    /\ \/ /\ args.r.Branch = <<"d", "/", "x">>
          /\ ParamValues(reqs[1].url, <<"r", "e", "f">>)
                = <<<<"d", "%", "2", "F", "x">>>>
          /\ ret.err = NoErr
          /\ ret.data = JSONText
       \/ /\ args.r.Branch = <<>>
          /\ ParamValues(reqs[1].url, <<"r", "e", "f">>) = <<<<"m", "a", "i", "n">>>>
          /\ args.net.status = 404
          /\ ret.err.e = "joined"

\* A response that get accepts and decodes.
Decodable(net) ==
    /\ net.kind = "http"
    /\ net.status < 400
    /\ ~net.body.readErr
    /\ net.body.json # NoJSON

\* The requests of a call whose URL has part in it.
RequestsWith(part) == {i \in 1..Len(reqs) : Contains(reqs[i].url, part)}

\* The call of Dir received the tree: it asked for it and the answer
\* decodes.
TreeReceived ==
    /\ RequestsWith(<<"/", "g", "i", "t", "/", "t", "r", "e", "e", "s", "/">>) # {}
    /\ Decodable(args.treeNet)

ReceivedTree == args.treeNet.body.json.val.Tree

\* The directory of the call without its leading and its trailing slash.
DirName ==
    LET d == TrimPrefix(args.f, <<"/">>)
    IN  IF HasSuffix(d, <<"/">>) THEN SubSeq(d, 1, Len(d) - 1) ELSE d

\* path is d + "/" + a name without "/"; in the root, a name without "/".
DirectlyInside(path, d) ==
    IF d = <<>> THEN ~Contains(path, <<"/">>)
    ELSE /\ Len(path) > Len(d)
         /\ SubSeq(path, 1, Len(d) + 1) = Append(d, "/")
         /\ ~Contains(SubSeq(path, Len(d) + 2, Len(path)), <<"/">>)

\* The positions of the tree that hold a blob directly inside the directory.
Wanted ==
    {i \in 1..Len(ReceivedTree) :
        /\ ReceivedTree[i].Type = <<"b", "l", "o", "b">>
        /\ DirectlyInside(ReceivedTree[i].Path, DirName)}

\* The content request for position i of the tree was answered with the
\* content.
Fetched(i) ==
    /\ args.contentNets[i].kind = "http"
    /\ args.contentNets[i].status < 400
    /\ ~args.contentNets[i].body.readErr

\* The positions of a set in increasing order.
InOrder(positions) ==
    [k \in 1..Cardinality(positions) |->
        CHOOSE i \in positions : Cardinality({j \in positions : j < i}) = k - 1]

\* The wanted entries whose content was fetched, in tree order, named by
\* their full path.
ExpectedFiles ==
    LET order == InOrder({i \in Wanted : Fetched(i)})
    IN  [k \in 1..Len(order) |->
            [Name |-> ReceivedTree[order[k]].Path,
             Data |-> args.contentNets[order[k]].body.text]]

\* C19: Dir returns, in tree order, exactly the blobs of the tree that lie
\* directly inside the directory and whose content could be fetched, each
\* named by its full path; other types, deeper entries and entries of
\* sibling directories are not returned.
C19_DirListsDirectory ==
    (op = "Dir" /\ TreeReceived) => ret.files = ExpectedFiles

\* C19's case: directory "/a/" on a tree with a file of a and a file of the
\* sibling ab or of the subdirectory a/b; only the file of a is returned.
C19_Witness ==
    /\ op = "Dir"
    /\ TreeReceived
    /\ args.f = <<"/", "a", "/">>
    /\ Len(ReceivedTree) = 2
    /\ ReceivedTree[1].Path \in {<<"a", "b", "/", "w">>, <<"a", "/", "b", "/", "w">>}
    /\ ReceivedTree[2].Path = <<"a", "/", "w">>
    /\ ret.files = <<[Name |-> <<"a", "/", "w">>, Data |-> <<"y", "2">>]>>

\* The request URLs of the call can be built.
Buildable == URLParses(requestURL(args.u.AccessToken, <<"/">>))

\* The branch lookup of the call was needed and failed.
BranchLookupFailed ==
    /\ args.b.Commit = <<>>
    /\ ~Buildable \/ ~Decodable(args.branchNet)

\* The tree request of the call failed.
TreeRequestFailed ==
    /\ ~BranchLookupFailed
    /\ ~Buildable \/ ~Decodable(args.treeNet)

\* C20: Dir never returns an error.  The branch is looked up only when the
\* pipeline has no commit; when that lookup fails Dir returns an empty list
\* after it and asks for no tree and no content; when the tree request
\* fails Dir returns an empty list and asks for no content; otherwise it
\* asks for the content of every wanted file, and a file whose content
\* request fails is left out while the others are returned.
C20_DirNeverFails ==
    op = "Dir" =>
        /\ ret.err = NoErr
        /\ args.b.Commit # <<>> => RequestsWith(<<"/", "b", "r", "a", "n", "c", "h", "e", "s", "/">>) = {}
        /\ BranchLookupFailed =>
                /\ ret.files = <<>>
                /\ Len(reqs) <= 1
                /\ RequestsWith(<<"/", "g", "i", "t", "/", "t", "r", "e", "e", "s", "/">>) = {}
                /\ RequestsWith(<<"/", "r", "a", "w", "/">>) = {}
        /\ TreeRequestFailed =>
                /\ ret.files = <<>>
                /\ RequestsWith(<<"/", "r", "a", "w", "/">>) = {}
        /\ (~BranchLookupFailed /\ ~TreeRequestFailed) =>
                /\ Cardinality(RequestsWith(<<"/", "r", "a", "w", "/">>)) = Cardinality(Wanted)
                /\ Len(ret.files) = Cardinality({i \in Wanted : Fetched(i)})
                /\ \A i \in Wanted :
                        Fetched(i) =>
                            \E k \in 1..Len(ret.files) :
                                ret.files[k].Data = args.contentNets[i].body.text

\* C20's case: the content request of the first wanted file fails and the
\* second file is still asked for and returned.
C20_Witness ==
    /\ op = "Dir"
    /\ TreeReceived
    /\ Wanted = {1, 2}
    /\ ~Fetched(1)
    /\ Fetched(2)
    /\ Cardinality(RequestsWith(<<"/", "r", "a", "w", "/">>)) = 2
    /\ ret.err = NoErr
    /\ ret.files = <<[Name |-> ReceivedTree[2].Path, Data |-> <<"y", "2">>]>>

----------------------------------------------------------------------------
(* Webhook registration: Activate and Deactivate calls in a row against a  *)
(* service that keeps the hooks of one repository.  A POST it answers with *)
(* a status below 400 has registered the hook, a DELETE it answers with a  *)
(* status below 400 has removed it, and its list is the hooks it holds.    *)

\* The links hooks are registered for: one, and one that extends it.
Links == {<<"l">>, <<"l", "/">>}

InitWebhooks ==
    /\ cfg = DefaultConfig
    /\ forge = New(cfg.opts)
    /\ server = NoHooks
    /\ op = "none"
    /\ args = Nil
    /\ ret = Nil
    /\ reqs = <<>>

\* The requests with the given method among sent.
WithMethod(sent, method) == {i \in 1..Len(sent) : sent[i].method = method}

\* The service answered the request below 400.
Accepted(net) == net.kind = "http" /\ net.status < 400

\* What the service answers to a request for hooks: v, or an undecodable
\* body, or a 404, or a 500 whose body holds "404"; or nothing.
HookAnswers(v) ==
    {[kind |-> "transport"], OkAnswer(v),
     [kind |-> "http", status |-> 200,
      body |-> [text |-> <<>>, json |-> NoJSON, readErr |-> FALSE]],
     [kind |-> "http", status |-> 404,
      body |-> [text |-> <<>>, json |-> NoJSON, readErr |-> FALSE]],
     [kind |-> "http", status |-> 500,
      body |-> [text |-> <<"4", "0", "4">>, json |-> NoJSON, readErr |-> FALSE]]}

\* The callers: the user whose token makes a URL, with every link, and the
\* user whose token makes none, with one.
HookCallers ==
    {<<u, link>> \in RepoUsers \X Links :
        Contains(u.AccessToken, <<Ctl>>) => link = <<"l">>}

ActivateCall ==
    /\ server.calls < MaxCalls
    /\ \E ul \in HookCallers :
       \E u \in {ul[1]}, link \in {ul[2]},
          net \in HookAnswers([ID |-> server.nextID, URL |-> ul[2]]) :
        /\ op' = "Activate"
        /\ args' = [u |-> u, r |-> FileRepo(<<>>), link |-> link, net |-> net,
                    before |-> server.hooks]
        /\ ret' = Activate(u, FileRepo(<<>>), link, net)
        /\ reqs' = ret'.sent
        /\ server' =
              IF WithMethod(ret'.sent, <<"P", "O", "S", "T">>) # {} /\ Accepted(net)
              THEN [hooks |-> Append(server.hooks,
                                     [ID |-> server.nextID, URL |-> link]),
                    nextID |-> server.nextID + 1,
                    calls |-> server.calls + 1,
                    allNil |-> server.allNil /\ ret'.err = NoErr]
              ELSE [server EXCEPT !.calls = @ + 1,
                                  !.allNil = @ /\ ret'.err = NoErr]
        /\ UNCHANGED <<cfg, forge>>

\* The hook ids the DELETE requests among sent name.
DeletedIDs(sent, hooks) ==
    {hooks[k].ID : k \in {k \in 1..Len(hooks) :
        \E i \in WithMethod(sent, <<"D", "E", "L", "E", "T", "E">>) :
            HasPrefix(sent[i].url,
                      Concat(<<defaultAPI, hooksEndpoint(<<"o">>, <<"r">>), <<"/">>,
                               Itoa(hooks[k].ID), <<"?">>>>))}}

\* What the network answers to the list request and to the delete request
\* of a Deactivate: every answer to one of them, the other one succeeding.
DeactivateAnswers ==
    {<<l, OkAnswer(Nil)>> : l \in HookAnswers(server.hooks)}
    \cup {<<OkAnswer(server.hooks), d>> : d \in HookAnswers(Nil)}

DeactivateCall ==
    /\ server.calls < MaxCalls
    /\ \E ul \in HookCallers, nets \in DeactivateAnswers :
       \E u \in {ul[1]}, link \in {ul[2]} :
        /\ op' = "Deactivate"
        /\ args' = [u |-> u, r |-> FileRepo(<<>>), link |-> link,
                    listNet |-> nets[1], deleteNet |-> nets[2],
                    before |-> server.hooks]
        /\ ret' = Deactivate(u, FileRepo(<<>>), link, nets[1], nets[2])
        /\ reqs' = ret'.sent
        /\ server' =
              [server EXCEPT
                 !.hooks = IF Accepted(nets[2])
                           THEN SelectSeq(server.hooks,
                                          LAMBDA h : h.ID \notin
                                              DeletedIDs(ret'.sent, server.hooks))
                           ELSE @,
                 !.calls = @ + 1,
                 !.allNil = @ /\ ret'.err = NoErr]
        /\ UNCHANGED <<cfg, forge>>

NextWebhooks ==
    \/ ActivateCall
    \/ DeactivateCall

SpecWebhooks == InitWebhooks /\ [][NextWebhooks]_vars

----------------------------------------------------------------------------
(* Properties of webhook registration, checked under SpecWebhooks.         *)

\* The hooks the Deactivate call was shown: the list, when the list request
\* could be built and its answer decodes.
ListReceived == Buildable /\ Decodable(args.listNet)

\* The positions of the listed hooks whose URL is the link of the call.
LinkHooks == {i \in 1..Len(args.before) : args.before[i].URL = args.link}

\* The error a delete returns for an answer of the network.
DeleteResult(net) ==
    IF net.kind = "transport" THEN ErrTransport
    ELSE IF net.status >= 400 THEN ErrAPI(net.status, net.body.text)
    ELSE NoErr

\* C21: Deactivate sends at most one DELETE.  When the list request fails it
\* sends none and returns the error; when no listed hook has the link as its
\* URL it sends none and returns nil; otherwise the DELETE names the first
\* listed hook with that URL and its result is returned.  Hooks with another
\* URL, and later hooks with the same URL, stay registered.
C21_DeactivateDeletesFirst ==
    op = "Deactivate" =>
        /\ Cardinality(WithMethod(reqs, <<"D", "E", "L", "E", "T", "E">>)) <= 1
        /\ ~ListReceived =>
                /\ WithMethod(reqs, <<"D", "E", "L", "E", "T", "E">>) = {}
                /\ ret.err # NoErr
                /\ server.hooks = args.before
        /\ (ListReceived /\ LinkHooks = {}) =>
                /\ WithMethod(reqs, <<"D", "E", "L", "E", "T", "E">>) = {}
                /\ ret.err = NoErr
                /\ server.hooks = args.before
        /\ (ListReceived /\ LinkHooks # {}) =>
                /\ Cardinality(WithMethod(reqs, <<"D", "E", "L", "E", "T", "E">>)) = 1
                /\ DeletedIDs(reqs, args.before) = {args.before[Min(LinkHooks)].ID}
                /\ ret.err = DeleteResult(args.deleteNet)
                /\ \A i \in 1..Len(args.before) :
                        i # Min(LinkHooks) =>
                            \E k \in 1..Len(server.hooks) :
                                server.hooks[k] = args.before[i]

\* C21's case: two hooks of the link and one of the other link are
\* registered; Deactivate removes the first and leaves the other two.
C21_Witness ==
    /\ op = "Deactivate"
    /\ ListReceived
    /\ Len(args.before) = 2
    /\ Cardinality(LinkHooks) = 2
    /\ ret.err = NoErr
    /\ server.hooks = <<args.before[2]>>

\* The hooks registered on the repository whose URL is the link.
Registered(link) == {i \in 1..Len(server.hooks) : server.hooks[i].URL = link}

\* C27: while every Activate and Deactivate so far returned nil, the
\* repository holds at most one hook per link, and after a Deactivate no hook
\* with its link is left.
C27_OneHookPerLink ==
    server.allNil =>
        /\ \A link \in Links : Cardinality(Registered(link)) <= 1
        /\ op = "Deactivate" => Registered(args.link) = {}

----------------------------------------------------------------------------
(* Further properties of the forge, checked under Spec.                    *)

\* C13: the OAuth configuration has the authorization URL
\* https://gitcode.com/login/oauth/authorize, the token URL
\* https://gitcode.com/login/oauth/access_token and the redirect URL
\* <OAuth host>/authorize, and Login redirects to that authorization URL.
C13_OAuthEndpoints ==
    /\ oauth2Config(forge, cfg.OAuthHost).AuthURL
         = Concat(<<defaultURL,
                    <<"/", "l", "o", "g", "i", "n", "/", "o", "a", "u", "t", "h",
                      "/", "a", "u", "t", "h", "o", "r", "i", "z", "e">>>>)
    /\ oauth2Config(forge, cfg.OAuthHost).TokenURL
         = Concat(<<defaultURL,
                    <<"/", "l", "o", "g", "i", "n", "/", "o", "a", "u", "t", "h",
                      "/", "a", "c", "c", "e", "s", "s", "_", "t", "o", "k", "e",
                      "n">>>>)
    /\ oauth2Config(forge, cfg.OAuthHost).RedirectURL
         = Concat(<<cfg.OAuthHost,
                    <<"/", "a", "u", "t", "h", "o", "r", "i", "z", "e">>>>)
    /\ (op = "Login" /\ ~ret.panicked) =>
            HasPrefix(ret.redirect,
                      Concat(<<defaultURL,
                               <<"/", "l", "o", "g", "i", "n", "/", "o", "a", "u",
                                 "t", "h", "/", "a", "u", "t", "h", "o", "r", "i",
                                 "z", "e", "?">>>>))

\* The account lookup of a Login call is answered with an account.
LookupAnswered ==
    /\ args.net.kind = "http"
    /\ args.net.status < 400
    /\ ~args.net.body.readErr
    /\ args.net.body.json # NoJSON

\* C15: Login with a code completes; it returns a user only when the
\* exchange and the account lookup both succeed, with the token's access
\* token, refresh token and expiry and the account's login, email, id (in
\* decimal when it is a number) and expanded avatar; when the exchange
\* fails no lookup is made; when either step fails it returns a nil user,
\* the redirect URL and the error.
C15_LoginWithCode ==
    (op = "Login" /\ args.code # <<>>) =>
        /\ ~ret.panicked
        /\ ret.redirect = AuthCodeURL(oauth2Config(forge, cfg.OAuthHost), args.state)
        /\ args.exchange.err # NoErr =>
            /\ Len(reqs) = 1
            /\ ret.user = Nil
            /\ ret.err = args.exchange.err
        /\ (args.exchange.err = NoErr /\ ~LookupAnswered) =>
            /\ ret.user = Nil
            /\ ret.err # NoErr
        /\ ret.user # Nil =>
            /\ args.exchange.err = NoErr
            /\ LookupAnswered
            /\ ret.err = NoErr
            /\ ret.user.AccessToken = args.exchange.token.AccessToken
            /\ ret.user.RefreshToken = args.exchange.token.RefreshToken
            /\ ret.user.Expiry = args.exchange.token.Expiry
            /\ ret.user.Login = args.net.body.json.val.Login
            /\ ret.user.Email = args.net.body.json.val.Email
            /\ ret.user.ForgeRemoteID
                 = (IF "str" \in DOMAIN args.net.body.json.val.ID
                    THEN args.net.body.json.val.ID.str
                    ELSE Itoa(args.net.body.json.val.ID.num))
            /\ ret.user.Avatar
                 = expandAvatar(defaultURL, args.net.body.json.val.AvatarURL).val

\* C16: Refresh returns true exactly when the token source gives no error
\* and a token with an access token, and then the user has the access
\* token, the refresh token and the expiry of that token; when it returns
\* false the user's access token, refresh token and expiry are unchanged.
C16_Refresh ==
    op = "Refresh" =>
        /\ ret.ok <=> (/\ args.source.err = NoErr
                       /\ args.source.token.AccessToken # <<>>)
        /\ ret.ok =>
            /\ ret.user.AccessToken = args.source.token.AccessToken
            /\ ret.user.RefreshToken = args.source.token.RefreshToken
            /\ ret.user.Expiry = args.source.token.Expiry
        /\ ~ret.ok =>
            /\ ret.user.AccessToken = args.user.AccessToken
            /\ ret.user.RefreshToken = args.user.RefreshToken
            /\ ret.user.Expiry = args.user.Expiry

\* C16's cases: a refresh that replaces the three values, and one that gets
\* a token without an access token and keeps them.
C16_Witness ==
    /\ op = "Refresh"
    /\ args.user.AccessToken = <<"o", "l", "d">>
    /\ \/ /\ ret.ok
          /\ ret.user.AccessToken = <<"n", "e", "w">>
          /\ ret.user.RefreshToken = <<"r", "2">>
          /\ ret.user.Expiry = 20
          /\ args.user.Expiry = 9
       \/ /\ ~ret.ok
          /\ args.source.err = NoErr
          /\ args.source.token.RefreshToken = <<"r", "2">>
          /\ ret.user.RefreshToken = <<"r">>

\* The listing of a Repo call by remote id got every page.
ListingFailed ==
    \E p \in 1..Len(args.answers) :
        GetUserRepos(args.u.AccessToken, p, defaultPageSize, args.answers[p]).err
            # NoErr

\* The positions in the received list of the repositories with the id asked.
Matches == {i \in 1..Len(Received) : Itoa(Received[i].ID) = args.remoteID}

UserReposURL ==
    Concat(<<defaultAPI,
             <<"/", "u", "s", "e", "r", "/", "r", "e", "p", "o", "s", "?">>>>)

\* C17: Repo with a valid remote id requests only pages of the user's
\* repository list, whatever the owner and the name, and every page; it
\* returns the conversion of the first listed repository whose id in
\* decimal is the remote id, so the repository's remote id is the one asked
\* for; when no listed repository has the id it returns no repository and
\* the error "repository with ID <id> not found"; a request for the
\* repository by owner and name is made only when the remote id is not
\* valid.
C17_RepoByRemoteID ==
    op = "Repo" =>
        /\ args.remoteID \notin {<<>>, <<"0">>} =>
            /\ \A i \in 1..Len(reqs) : HasPrefix(reqs[i].url, UserReposURL)
            /\ ~ListingFailed =>
                /\ Len(reqs) = Len(args.answers)
                /\ IF Matches = {}
                   THEN /\ ret.repo = Nil
                        /\ ret.err = ErrRepoNotFound(args.remoteID)
                   ELSE /\ ret.err = NoErr
                        /\ ret.repo = toRepo(Received[Min(Matches)])
                        /\ ret.repo.ForgeRemoteID = args.remoteID
        /\ (\E i \in 1..Len(reqs) : ~HasPrefix(reqs[i].url, UserReposURL)) =>
            /\ args.remoteID \in {<<>>, <<"0">>}
            /\ Len(reqs) = 1
            /\ HasPrefix(reqs[1].url,
                         Concat(<<defaultAPI, <<"/", "r", "e", "p", "o", "s", "/">>,
                                  args.owner, <<"/">>, args.name>>))

\* C17's case: the id 2 is on the first two pages and the repository of the
\* first page is returned after the three pages were fetched.
C17_Witness ==
    /\ op = "Repo"
    /\ args.remoteID = <<"2">>
    /\ Len(reqs) = 3
    /\ ret.err = NoErr
    /\ Cardinality(Matches) >= 2
    /\ ret.repo.ForgeRemoteID = <<"2">>
    /\ ret.repo.Branch = <<"b", "1">>

----------------------------------------------------------------------------
(* Properties of Hook, checked under SpecHook.                             *)

\* What parseHook makes of the request of the Hook call.
ParsedOfCall == parseHook(args.event, args.body, args.now, args.ignored)

\* The iid of the merge request the body of the call decodes to.
IIDOfCall == parsePullRequest(args.body).val.MergeRequest.IID

\* The Hook call parsed a pull-request pipeline.
PullRequestParsed ==
    /\ op = "Hook"
    /\ ParsedOfCall.err = NoErr
    /\ ParsedOfCall.pipeline # Nil
    /\ ParsedOfCall.pipeline.Event \in {EventPull, EventPullClosed}

\* C22: when parseHook returns an error Hook returns that error with no
\* repository and no pipeline.  For a pull-request or pull-request-closed
\* pipeline the third segment of the ref is the merge request's iid, the
\* changed files are looked up for that number once, and the repository
\* and the pipeline are returned with a nil error.
C22_HookPullRequest ==
    op = "Hook" =>
        /\ ParsedOfCall.err # NoErr =>
               /\ ret.repo = Nil
               /\ ret.pipeline = Nil
               /\ ret.err = ParsedOfCall.err
        /\ PullRequestParsed =>
               /\ Split(ParsedOfCall.pipeline.Ref, "/")[3]
                    = Itoa(IIDOfCall)
               /\ ret.lookups = <<[repo |-> ParsedOfCall.repo,
                                   index |-> IIDOfCall]>>
               /\ ret.err = NoErr
               /\ ret.repo = ParsedOfCall.repo
               /\ ret.pipeline # Nil
               /\ \A f \in DOMAIN ParsedOfCall.pipeline :
                      ret.pipeline[f] = ParsedOfCall.pipeline[f]

\* C22's cases: a closed merge request with iid 12 is looked up as number
\* 12 and returned; a body that does not decode gives the decode error.
C22_Witness ==
    /\ op = "Hook"
    /\ \/ /\ PullRequestParsed
          /\ IIDOfCall = 12
          /\ ret.pipeline.Event = EventPullClosed
          /\ ret.lookups[1].index = 12
          /\ ret.err = NoErr
       \/ /\ args.event = hookPush
          /\ args.body.kind = "garbage"
          /\ ret.err = ErrDecode
          /\ ret.repo = Nil

----------------------------------------------------------------------------
(* Properties of the changed files of a push, checked under SpecConv.      *)

\* The list of a commit by its rank: added, modified, removed.
ListOf(commit, kind) ==
    CASE kind = 1 -> commit.Added
      [] kind = 2 -> commit.Modified
      [] kind = 3 -> commit.Removed

\* The places of the push where file f is listed: commit, kind, position.
PlacesOf(f) ==
    {<<c, k, i>> \in (1..Len(args.hook.Commits)) \X (1..3) \X (1..2) :
        /\ i <= Len(ListOf(args.hook.Commits[c], k))
        /\ ListOf(args.hook.Commits[c], k)[i] = f}

\* Place p comes before place q when the push is read commit by commit and,
\* in a commit, added before modified before removed.
Before(p, q) ==
    \/ p[1] < q[1]
    \/ p[1] = q[1] /\ p[2] < q[2]
    \/ p[1] = q[1] /\ p[2] = q[2] /\ p[3] < q[3]

\* The first place file f is listed at.
FirstPlace(f) ==
    CHOOSE p \in PlacesOf(f) : \A q \in PlacesOf(f) : q = p \/ Before(p, q)

C24_PullRequestEvent ==
    (op = "parsePullRequestHook" /\ args.body.kind = "pull_request"
        /\ ret.pipeline # Nil) =>
        /\ ret.pipeline.Event \in {EventPull, EventPullClosed}
        /\ ret.pipeline.Event = EventPullClosed <=>
              \/ HookOfCall.MergeRequest.Action = <<"c", "l", "o", "s", "e">>
              \/ HookOfCall.MergeRequest.State = <<"c", "l", "o", "s", "e", "d">>
        /\ ret.pipeline.FromFork <=>
              HookOfCall.MergeRequest.Source.ID # HookOfCall.MergeRequest.Target.ID
        /\ ret.pipeline.PullRequestLabels = <<>>

\* C24's case: a merged merge request from another project is a
\* pull-request event from a fork.
C24_Witness ==
    /\ op = "parsePullRequestHook"
    /\ args.body.kind = "pull_request"
    /\ ret.pipeline # Nil
    /\ HookOfCall.MergeRequest.State = <<"m", "e", "r", "g", "e", "d">>
    /\ HookOfCall.MergeRequest.Source.ID = 8
    /\ ret.pipeline.Event = EventPull
    /\ ret.pipeline.FromFork

\* The "/"-separated segments of the full name of a toRepo call.
Segments == Split(args.from.FullName, "/")

gitcodeURL == <<"h", "t", "t", "p", "s", ":", "/", "/", "g", "i", "t", "c", "o",
                "d", "e", ".", "c", "o", "m">>

\* C25: toRepo takes owner and name from the first and the second segment
\* of full_name when it has two segments or more, else from namespace.path
\* and name; when full_name is not empty the result's FullName is Owner,
\* "/", Name, both non-empty; the forge URL, the clone URL and the SSH URL
\* are the API's when present, else built from "https://gitcode.com" and
\* full_name.
C25_ToRepo ==
    op = "toRepo" =>
        /\ IF Len(Segments) >= 2
           THEN ret.Owner = Segments[1] /\ ret.Name = Segments[2]
           ELSE ret.Owner = args.from.Namespace.Path /\ ret.Name = args.from.Name
        /\ args.from.FullName # <<>> =>
              /\ ret.FullName = Concat(<<ret.Owner, <<"/">>, ret.Name>>)
              /\ ret.Owner # <<>>
              /\ ret.Name # <<>>
        /\ ret.ForgeURL = IF args.from.WebURL # <<>> THEN args.from.WebURL
                          ELSE Concat(<<gitcodeURL, <<"/">>, args.from.FullName>>)
        /\ ret.Clone = IF args.from.HTTPURLToRepo # <<>> THEN args.from.HTTPURLToRepo
                       ELSE Concat(<<gitcodeURL, <<"/">>, args.from.FullName,
                                     <<".", "g", "i", "t">>>>)
        /\ ret.CloneSSH = IF args.from.SSHURLToRepo # <<>> THEN args.from.SSHURLToRepo
                          ELSE Concat(<<<<"g", "i", "t", "@", "g", "i", "t", "c", "o",
                                          "d", "e", ".", "c", "o", "m", ":">>,
                                        args.from.FullName, <<".", "g", "i", "t">>>>)

----------------------------------------------------------------------------
(* Not-found handling, checked under SpecFiles.                            *)

\* The request of the call was answered with an error status.
AnsweredWithError ==
    /\ Len(reqs) = 1
    /\ args.net.kind = "http"
    /\ args.net.status >= 400

\* C26: File returns an error that wraps config-not-found, and PullRequests
\* an empty list with a nil error, exactly when the request was answered
\* with status 404; an answer with another error status is returned as the
\* API error it is, whatever its body.
C26_NotFoundByStatus ==
    /\ op = "File" =>
          /\ ret.err.e = "joined" <=> (AnsweredWithError /\ args.net.status = 404)
          /\ (AnsweredWithError /\ args.net.status # 404) =>
                ret.err = ErrAPI(args.net.status, args.net.body.text)
    /\ op = "PullRequests" =>
          /\ AnsweredWithError =>
                (ret.err = NoErr <=> args.net.status = 404)
          /\ (AnsweredWithError /\ args.net.status = 404) => ret.list = <<>>
          /\ (AnsweredWithError /\ args.net.status # 404) =>
                ret.err = ErrAPI(args.net.status, args.net.body.text)

\* The Hook call returned the pipeline of a release.
ReleaseReturned ==
    /\ op = "Hook"
    /\ ~ret.panicked
    /\ ret.err = NoErr
    /\ ret.pipeline # Nil
    /\ ret.pipeline.Event = EventRelease

\* C28: for a release pipeline Hook looks up the commit of the tag with the
\* whole tag_name of the release, and the pipeline it returns has a commit.
C28_ReleaseCommit ==
    ReleaseReturned =>
        /\ Len(ret.tags) = 1
        /\ ret.tags[1].tagName = args.body.hook.Release.TagName
        /\ CommitOf(ret.pipeline) # <<>>

\* C29: the conversion of a decodable pull-request payload and of a
\* decodable release payload to a pipeline never aborts.
C29_ConversionReturns ==
    op \in {"parseHook", "Hook"} =>
        /\ (args.event = hookPullRequest /\ args.body.kind = "pull_request") =>
                /\ pipelineFromPullRequestHook(args.body.hook) # Crash
                /\ ~ret.panicked
        /\ (args.event = hookRelease /\ args.body.kind = "release") =>
                /\ pipelineFromRelease(args.body.hook) # Crash
                /\ ~ret.panicked

\* What the caller of a Pages loop should see: the names of the branches,
\* or the converted pull requests.
ItemsOfCall ==
    IF args.kind = "Branches"
    THEN [i \in 1..Len(args.items) |-> args.items[i].Name]
    ELSE [i \in 1..Len(args.items) |-> convertPullRequest(args.items[i])]

\* C30: a page-increment loop over Branches or over PullRequests whose
\* requests are all answered ends, and has then seen each branch or pull
\* request of the repository once; a single call names the page it was asked
\* for in its request.
C30_PagesHonoured ==
    /\ (op = "Pages" /\ ret.err = NoErr) =>
            /\ ret.done
            /\ ret.items = ItemsOfCall
    /\ (op \in {"Branches", "PullRequests"} /\ reqs # <<>>) =>
            PageNamed(reqs[1].url) = args.p.Page

=============================================================================
